---- MODULE Spec2Model ----
(***************************************************************************)
(* A model of the stack marshalling and function-invocation core of sol2:  *)
(* sol::function::call (function.hpp), the callable binder                 *)
(* stack::pusher<function_sig> / pusher<overload_set> (function.hpp), the  *)
(* overload resolver and the object lifetime manager they rely on.         *)
(*                                                                         *)
(* The Lua stack is a sequence of values, index 1 at the bottom.  Each     *)
(* subsystem has a specification of its own over the shared variables:     *)
(*   Spec          host -> Lua calls through function::call                *)
(*   SpecOverload  binding and calling overload sets                       *)
(*   SpecLifetime  opaque object records (usertype values, aliases,        *)
(*                 shared handles)                                         *)
(*   SpecBind      binding member functions with and without a receiver    *)
(*   SpecPush, SpecRebind   pushing and rebinding callables                *)
(*   SpecBinder    the binder through set_function and through a push      *)
(*   SpecField, SpecKeys    field getters and setters, keys that are pairs *)
(*                 or tuples                                               *)
(*   SpecState     open_libraries, create_table, new_usertype              *)
(*   SpecIter, SpecIterCopy table iteration and copies of iterators        *)
(*   SpecScript    script and script_file                                  *)
(*   SpecThread    threads                                                 *)
(*   SpecRecord, SpecCallState  record lifecycles and call-state objects   *)
(***************************************************************************)
EXTENDS Integers, Sequences, FiniteSets, TLC

VARIABLES
    stack,      \* the Lua stack of the main state (lua_State* L)
    lastcall,   \* what the last function::call did (heights, mid stack, result)
    globals,    \* the runtime's global names: name -> Lua value
    heap,       \* heap objects the runtime's userdata point to, by index
    registered, \* what the host bound under the function name, as it gave it
    host,       \* the host's own objects, by address
    shared,     \* SpecLifetime: the control block of the host's shared handle
    counters,   \* SpecLifetime: constructions and destructions so far
    lstate,     \* SpecLifetime: the runtime is "open" or "closed"
    lastres     \* the outcome of the last script call or retrieval

vars == <<stack, lastcall, globals, heap, registered, host, shared, counters, lstate,
          lastres>>

(***************************************************************************)
(* Bounds of the model.                                                    *)
(***************************************************************************)
MaxPre == 2      \* largest stack height at which a call is started
MaxArgs == 2     \* most host arguments handed to one call
MaxRet == 2      \* most values a Lua callee returns / most Ret types asked

(***************************************************************************)
(* Lua values.  Every value is a record [k, v] so that any two compare.    *)
(***************************************************************************)
Nil == [k |-> "nil", v |-> 0]
Num(n) == [k |-> "number", v |-> n]
Str(n) == [k |-> "string", v |-> n]
\* a Lua function that returns r values: Num(1), .., Num(r)
Fn(r) == [k |-> "function", v |-> r]

NoCall == [h |-> 0, req |-> <<>>, args |-> <<>>, mid |-> <<>>, nargs |-> 0,
           post |-> 0, first |-> 0, count |-> 0, ret |-> <<>>, done |-> FALSE]

(***************************************************************************)
(* The runtime's call primitive, lua_callk(L, nargs, nresults, 0, nullptr),*)
(* as function::luacall uses it: the function and its nargs arguments are  *)
(* popped, the results pushed, adjusted to nresults unless LUA_MULTRET.    *)
(***************************************************************************)
LUA_MULTRET == -1

FnResults(f) == [i \in 1..f.v |-> Num(i)]

Adjust(rs, n) == [i \in 1..n |-> IF i <= Len(rs) THEN rs[i] ELSE Nil]

luacall(stk, argcount, resultcount) ==
    LET fidx == Len(stk) - argcount
        produced == FnResults(stk[fidx])
        results == IF resultcount = LUA_MULTRET THEN produced
                   ELSE Adjust(produced, resultcount)
    IN  SubSeq(stk, 1, fidx - 1) \o results

(***************************************************************************)
(* stack::multi_push and stack::pop<T>.  A host argument is "int" (one     *)
(* slot) or "pair" (two slots: both members are pushed).                   *)
(***************************************************************************)
ArgKinds == {"int", "pair"}

ArgSlots(a) == IF a = "pair" THEN <<Num(1), Num(2)>> ELSE <<Num(1)>>

RECURSIVE multi_push_slots(_)
multi_push_slots(args) ==
    IF args = <<>> THEN <<>>
    ELSE ArgSlots(Head(args)) \o multi_push_slots(Tail(args))

\* the stack after multi_push and the slot count it returns
multi_push(stk, args) ==
    [stack |-> stk \o multi_push_slots(args),
     count |-> Len(multi_push_slots(args))]

\* stack::pop of n slots: the values read and the stack without them
stack_pop(stk, n) ==
    [stack |-> SubSeq(stk, 1, Len(stk) - n),
     vals |-> SubSeq(stk, Len(stk) - n + 1, Len(stk))]

Max(a, b) == IF a >= b THEN a ELSE b

(***************************************************************************)
(* function::invoke, by the requested result types.  req is the list       *)
(* Ret...: <<>> for call<>(), <<"void">>, one type, or several.            *)
(***************************************************************************)
ReqSet == {<<>>, <<"void">>} \cup
          UNION {[1..n -> {"int"}] : n \in 1..MaxRet}

invokeAsksOneResult(stk, req, n) ==
    IF req = <<>> THEN
        LET firstreturn == Max(1, Len(stk) - n)
            after == luacall(stk, n, LUA_MULTRET)
        IN  [stack |-> after, ret |-> <<>>, first |-> firstreturn,
             count |-> Len(after) - (firstreturn - 1), post |-> Len(after)]
    ELSE
        LET after == luacall(stk, n, 1)
            popped == stack_pop(after, 1)
        IN  [stack |-> popped.stack,
             ret |-> IF req = <<"void">> THEN <<>> ELSE popped.vals,
             first |-> 0, count |-> 0, post |-> Len(after)]

invokeFirstAfterArguments(stk, req, n) ==
    LET after == luacall(stk, n, IF req = <<>> THEN LUA_MULTRET
                                 ELSE IF req = <<"void">> THEN 0
                                 ELSE Len(req))
        popped == stack_pop(after, IF req \in {<<>>, <<"void">>} THEN 0
                                   ELSE Len(req))
    IN  [stack |-> popped.stack, ret |-> popped.vals,
         first |-> IF req = <<>> THEN Len(stk) ELSE 0,
         count |-> IF req = <<>> THEN Len(after) - (Len(stk) - 1) ELSE 0,
         post |-> Len(after)]

invokeKeepsResults(stk, req, n) ==
    LET k == IF req = <<"void">> THEN 0 ELSE Len(req)
        after == luacall(stk, n, IF req = <<>> THEN LUA_MULTRET ELSE k)
    IN  [stack |-> after, ret |-> <<>>,
         first |-> Max(1, Len(stk) - n),
         count |-> Len(after) - (Max(1, Len(stk) - n) - 1),
         post |-> Len(after)]

invoke(stk, req, n) ==
    IF req = <<>> THEN
        LET stacksize == Len(stk)
            firstreturn == Max(1, stacksize - n)
            after == luacall(stk, n, LUA_MULTRET)
            poststacksize == Len(after)
            returncount == poststacksize - (firstreturn - 1)
        IN  [stack |-> after, ret |-> <<>>, first |-> firstreturn,
             count |-> returncount, post |-> poststacksize]
    ELSE IF req = <<"void">> THEN
        LET after == luacall(stk, n, 0)
        IN  [stack |-> after, ret |-> <<>>, first |-> 0, count |-> 0,
             post |-> Len(after)]
    ELSE
        LET after == luacall(stk, n, Len(req))
            popped == stack_pop(after, Len(req))
        IN  [stack |-> popped.stack, ret |-> popped.vals, first |-> 0,
             count |-> 0, post |-> Len(after)]

(***************************************************************************)
(* function::call<Ret...>(args...): push the callable (reference::push),   *)
(* multi_push the arguments, invoke.                                       *)
(***************************************************************************)
callCountsHostArguments(stk, f, req, args) ==
    LET withfn == stk \o <<f>>
        pushed == multi_push(withfn, args)
        r == invoke(pushed.stack, req, Len(args))
    IN  [h |-> Len(stk), req |-> req, args |-> args, mid |-> pushed.stack,
         nargs |-> Len(args), post |-> r.post, first |-> r.first,
         count |-> r.count, ret |-> r.ret, stack |-> r.stack]

call(stk, f, req, args) ==
    LET withfn == stk \o <<f>>
        pushed == multi_push(withfn, args)
        r == invoke(pushed.stack, req, pushed.count)
    IN  [h |-> Len(stk), req |-> req, args |-> args, mid |-> pushed.stack,
         nargs |-> pushed.count, post |-> r.post, first |-> r.first,
         count |-> r.count, ret |-> r.ret, stack |-> r.stack]

ArgLists == UNION {[1..n -> ArgKinds] : n \in 0..MaxArgs}

Call(f, req, args) ==
    /\ Len(stack) <= MaxPre
    /\ \E c \in {call(stack, f, req, args)} :
           /\ stack' = c.stack
           /\ lastcall' = [h |-> c.h, req |-> c.req, args |-> c.args,
                           mid |-> c.mid,
                           nargs |-> c.nargs, post |-> c.post,
                           first |-> c.first, count |-> c.count,
                           ret |-> c.ret, done |-> TRUE]
    /\ UNCHANGED <<globals, heap, registered, host, shared, counters, lstate,
                   lastres>>

\* the host pushes one value (stack::push)
Push(v) ==
    /\ Len(stack) < MaxPre
    /\ stack' = stack \o <<v>>
    /\ lastcall' = NoCall
    /\ UNCHANGED <<globals, heap, registered, host, shared, counters, lstate,
                   lastres>>

\* the host drops the top slot (lua_pop(L, 1))
Pop ==
    /\ Len(stack) > 0
    /\ stack' = SubSeq(stack, 1, Len(stack) - 1)
    /\ lastcall' = NoCall
    /\ UNCHANGED <<globals, heap, registered, host, shared, counters, lstate,
                   lastres>>

NoRes == [done |-> FALSE]

\* the variables a specification does not use keep these values
IdleLifetime ==
    /\ shared = [count |-> 0, alive |-> FALSE, hosthandles |-> 0]
    /\ counters = [created |-> 0, destroyed |-> 0]
    /\ lstate = "open"

Init ==
    /\ stack = <<>>
    /\ lastcall = NoCall
    /\ globals = <<>>
    /\ heap = <<>>
    /\ registered = <<>>
    /\ host = <<>>
    /\ lastres = NoRes
    /\ IdleLifetime

Next ==
    \/ \E r \in 0..MaxRet, req \in ReqSet, args \in ArgLists :
           Call(Fn(r), req, args)
    \/ \E v \in {Nil, Num(1)} : Push(v)
    \/ Pop

Spec == Init /\ [][Next]_vars

(***************************************************************************)
(* Runtime primitives the binder uses.                                     *)
(***************************************************************************)
\* a full userdata holding one pointer into the heap (userdata_value)
UserData(p, gc) == [k |-> "userdata", v |-> [ptr |-> p, gc |-> gc]]

push_closureKeepsUpvalues(stk, fn, n) ==
    stk \o
    <<[k |-> "cclosure",
       v |-> [fn |-> fn, up |-> SubSeq(stk, Len(stk) - n + 1, Len(stk))]]>>

\* lua_pushcclosure(L, fn, n): the top n slots become the closure's upvalues
push_closure(stk, fn, n) ==
    SubSeq(stk, 1, Len(stk) - n) \o
    <<[k |-> "cclosure",
       v |-> [fn |-> fn, up |-> SubSeq(stk, Len(stk) - n + 1, Len(stk))]]>>

GetGlobal(g, key) == IF key \in DOMAIN g THEN g[key] ELSE Nil

lua_setglobalKeepsFirst(stk, g, key) ==
    [stack |-> SubSeq(stk, 1, Len(stk) - 1),
     globals |-> [n \in (DOMAIN g) \cup {key} |->
                     IF n = key /\ key \notin DOMAIN g THEN stk[Len(stk)]
                     ELSE g[n]]]

\* lua_setglobal(L, key): pops the top slot into the global
lua_setglobal(stk, g, key) ==
    [stack |-> SubSeq(stk, 1, Len(stk) - 1),
     globals |-> [n \in (DOMAIN g) \cup {key} |->
                     IF n = key THEN stk[Len(stk)] ELSE g[n]]]

(***************************************************************************)
(* pusher<function_sig<>>::set_fx(L, unique_ptr<base_function>): the       *)
(* call-state object is released to the heap, a userdata pointing to it is *)
(* pushed and given the cleanup metatable, and function_detail::call is    *)
(* pushed as a closure over that one upvalue.                              *)
(***************************************************************************)
set_fx_ptrSharesTarget(stk, hp, obj) ==
    LET hp2 == IF hp = <<>> THEN Append(hp, obj) ELSE hp
        target == Len(hp2)
        s1 == stk \o <<UserData(target, TRUE)>>
    IN  [stack |-> push_closure(s1, "function_detail::call", 1), heap |-> hp2]

set_fx_ptr(stk, hp, obj) ==
    LET hp2 == Append(hp, obj)
        target == Len(hp2)
        s1 == stk \o <<UserData(target, FALSE)>>
        s2 == s1 \o <<[k |-> "table", v |-> 0]>>
        s3 == SubSeq(s2, 1, Len(s2) - 2) \o <<UserData(target, TRUE)>>
    IN  [stack |-> push_closure(s3, "function_detail::call", 1), heap |-> hp2]

(***************************************************************************)
(* Overload sets.  A candidate is a host function with its declared        *)
(* parameter kinds and the values it returns; "any" is a parameter of type *)
(* sol::object, which every value converts to.                             *)
(***************************************************************************)
func_1 == [name |-> "func_1", params |-> <<"number">>, rets |-> <<Num(1)>>]
func_1s == [name |-> "func_1s", params |-> <<"string">>, rets |-> <<Str(1)>>]
func_2 == [name |-> "func_2", params |-> <<"number", "number">>,
           rets |-> <<Num(2)>>]
func_3 == [name |-> "func_3", params |-> <<"number", "number", "number">>,
           rets |-> <<>>]
func2s == [name |-> "func2s", params |-> <<"number", "string">>,
           rets |-> <<Str(2)>>]
func_obj == [name |-> "func_obj", params |-> <<"any">>, rets |-> <<Num(3)>>]

Candidates == {func_1, func_1s, func_2, func_3, func2s, func_obj}

MaxOvl == 3        \* most candidates in one overload set
MaxCallArgs == 3   \* most arguments a script passes in one call

Injective(q) == \A i, j \in DOMAIN q : q[i] = q[j] => i = j

OverloadSets ==
    {q \in UNION {[1..n -> Candidates] : n \in 1..MaxOvl} : Injective(q)}

ScriptArgs == UNION {[1..n -> {Num(1), Str(1)}] : n \in 0..MaxCallArgs}

overloaded_function(set) ==
    [type |-> "overloaded_function", set |-> set, alive |-> TRUE]

ReversedSet(set) == [i \in 1..Len(set) |-> set[Len(set) + 1 - i]]

overload_set_pushReversed(stk, hp, set) ==
    LET r == set_fx_ptr(stk, hp, overloaded_function(ReversedSet(set)))
    IN  [stack |-> r.stack, heap |-> r.heap, count |-> 1]

\* pusher<overload_set<Functions...>>::push
overload_set_push(stk, hp, set) ==
    LET r == set_fx_ptr(stk, hp, overloaded_function(set))
    IN  [stack |-> r.stack, heap |-> r.heap, count |-> 1]

(***************************************************************************)
(* The resolver: candidates are tried in the order of the stored set.  An  *)
(* attempt checks the arity against the frame's argument count, then each  *)
(* argument slot against the declared parameter kind; it reads the frame   *)
(* and leaves it as it was.  The first accepted candidate is committed:    *)
(* its arguments are popped, it is invoked and its results pushed.         *)
(***************************************************************************)
checker(kind, v) == kind = "any" \/ v.k = kind

arity_okAtMost(c, n) == Len(c.params) <= n

arity_ok(c, n) == Len(c.params) = n

check_types(c, frame) ==
    \A i \in 1..Len(c.params) : i <= Len(frame) /\ checker(c.params[i], frame[i])

attemptConsuming(c, frame) ==
    LET ok == arity_ok(c, Len(frame)) /\ check_types(c, frame)
    IN  [ok |-> ok,
         frame |-> IF ok \/ frame = <<>> THEN frame
                   ELSE SubSeq(frame, 1, Len(frame) - 1)]

attempt(c, frame) ==
    [ok |-> arity_ok(c, Len(frame)) /\ check_types(c, frame), frame |-> frame]

commit(c, frame) == SubSeq(frame, 1, Len(frame) - Len(c.params)) \o c.rets

no_matchCallsLast(set, frame, tried) ==
    [error |-> FALSE, chosen |-> set[Len(set)].name,
     invoked |-> <<set[Len(set)].name>>, attempts |-> tried,
     frame |-> set[Len(set)].rets, nret |-> Len(set[Len(set)].rets)]

\* no candidate matched: the resolution error is raised, nothing is invoked
no_match(set, frame, tried) ==
    [error |-> TRUE, chosen |-> "none", invoked |-> <<>>, attempts |-> tried,
     frame |-> frame, nret |-> 0]

RECURSIVE match(_, _, _, _)
match(set, i, frame, tried) ==
    IF i > Len(set) THEN no_match(set, frame, tried)
    ELSE LET a == attempt(set[i], frame)
         IN  IF a.ok
             THEN [error |-> FALSE, chosen |-> set[i].name,
                   invoked |-> <<set[i].name>>, attempts |-> tried,
                   frame |-> commit(set[i], a.frame),
                   nret |-> Len(set[i].rets)]
             ELSE match(set, i + 1, a.frame,
                        Append(tried, [cand |-> set[i].name,
                                       before |-> Len(frame),
                                       after |-> Len(a.frame)]))

\* function_detail::call: the trampoline reads the call-state object from
\* upvalue 1 and runs it on the frame of the call
overload_call(cl, hp, args) == match(hp[cl.v.up[1].v.ptr].set, 1, args, <<>>)

\* lua.set_function("func", sol::overload(...)): push, then lua_setglobal
SetOverload(set) ==
    /\ GetGlobal(globals, "func") = Nil
    /\ LET p == overload_set_push(stack, heap, set)
           g == lua_setglobal(p.stack, globals, "func")
       IN  /\ stack' = g.stack
           /\ globals' = g.globals
           /\ heap' = p.heap
    /\ registered' = set
    /\ lastres' = NoRes
    /\ UNCHANGED <<lastcall, host, shared, counters, lstate>>

\* lua.script("func(...)"): the runtime calls the bound closure on a frame
\* holding the arguments
ScriptCallOverload(args) ==
    /\ GetGlobal(globals, "func") # Nil
    /\ LET r == overload_call(GetGlobal(globals, "func"), heap, args)
       IN  lastres' = [done |-> TRUE, args |-> args, error |-> r.error,
                       chosen |-> r.chosen, invoked |-> r.invoked,
                       attempts |-> r.attempts, frame |-> r.frame,
                       nret |-> r.nret]
    /\ UNCHANGED <<stack, lastcall, globals, heap, registered, host, shared,
                   counters, lstate>>

InitOverload == Init

NextOverload ==
    \/ \E set \in OverloadSets : SetOverload(set)
    \/ \E args \in ScriptArgs : ScriptCallOverload(args)

SpecOverload == InitOverload /\ [][NextOverload]_vars

(***************************************************************************)
(* Opaque object records.  The host owns NHost objects of a bound type     *)
(* (each with one int member, boop) and one shared handle.  A value handed *)
(* to the runtime becomes a record on the heap:                            *)
(*   owned-value   the object was copied into the record's own storage     *)
(*   raw-alias     the record stores the host object's address only        *)
(*   shared-owner  the record stores a copy of the shared handle           *)
(* A record is finalized when the runtime collects it, at the latest when  *)
(* the runtime is closed.                                                  *)
(***************************************************************************)
NHost == 1         \* host objects of the bound type
MaxRecords == 2    \* records the runtime allocates in one run
MaxHandles == 3    \* shared handles the host holds at once

HostObjs == 1..NHost
Names == {"beep"}
Hows == {"value", "pointer", "reference_wrapper"}

HostAddr(a) == [space |-> "host", at |-> a]
StorageAddr(p) == [space |-> "userdata", at |-> p]
SharedAddr == [space |-> "shared", at |-> 0]

bind_modeCopiesWrapped(how) ==
    IF how = "pointer" THEN "raw-alias"
    ELSE IF how = "shared" THEN "shared-owner"
    ELSE "owned-value"

\* the ownership mode a pushed value gets, by the form the host supplies
bind_mode(how) ==
    IF how \in {"pointer", "reference_wrapper"} THEN "raw-alias"
    ELSE IF how = "shared" THEN "shared-owner"
    ELSE "owned-value"

\* the record a push allocates at heap index p for host object a (0: none)
new_record(p, how, a, boop) ==
    [type |-> "record", mode |-> bind_mode(how), how |-> how, from |-> a,
     addr |-> IF bind_mode(how) = "raw-alias" THEN HostAddr(a)
              ELSE IF bind_mode(how) = "shared-owner" THEN SharedAddr
              ELSE StorageAddr(p),
     boop |-> boop, state |-> "bound", fin |-> 0, collected |-> FALSE]

\* a reclaimed record: its storage is gone, only its history is kept
Reclaimed(r, destroyed) ==
    [type |-> "record", mode |-> r.mode, how |-> r.how, from |-> 0,
     addr |-> SharedAddr, boop |-> 0,
     state |-> IF destroyed THEN "destroyed" ELSE r.state,
     fin |-> IF destroyed THEN r.fin + 1 ELSE r.fin, collected |-> TRUE]

on_gcDestroysAlias(r) == Reclaimed(r, TRUE)

on_gcLeaksOwned(r) == Reclaimed(r, r.mode = "shared-owner")

\* the finalizer of a record, run by the runtime when it reclaims it: the
\* stored object's destructor (owned-value), the release of the stored
\* handle (shared-owner), nothing for an alias
on_gc(r) == Reclaimed(r, r.mode # "raw-alias")

\* what finalizing a set of records does to the counters and the handle
Finalized(hp, ps) == [p \in 1..Len(hp) |-> IF p \in ps THEN on_gc(hp[p]) ELSE hp[p]]

DestructorRuns(hp, hp2) ==
    Cardinality({p \in 1..Len(hp) :
                     hp[p].mode = "owned-value" /\ hp2[p].fin > hp[p].fin})

HandleReleases(hp, hp2) ==
    Cardinality({p \in 1..Len(hp) :
                     hp[p].mode = "shared-owner" /\ hp2[p].fin > hp[p].fin})

release(sh, n) ==
    [sh EXCEPT !.count = @ - n, !.alive = sh.alive /\ (sh.count - n > 0)]

Reachable(g, p) == \E n \in DOMAIN g : g[n].k = "userdata" /\ g[n].v.ptr = p

\* an address refers to a live object
Valid(addr, hp, hs) ==
    IF addr.space = "host" THEN hs[addr.at].alive
    ELSE IF addr.space = "userdata"
         THEN addr.at \in 1..Len(hp) /\ ~hp[addr.at].collected
         ELSE FALSE

\* the object an address refers to: its member boop
Deref(addr, hp, hs) ==
    IF addr.space = "host" THEN hs[addr.at].boop ELSE hp[addr.at].boop

getAlwaysStorage(r, p, sh) == [addr |-> StorageAddr(p), shared |-> sh]

getCopiesHandle(r, p, sh) ==
    [addr |-> r.addr,
     shared |-> IF r.mode = "shared-owner"
                THEN [sh EXCEPT !.count = @ + 1] ELSE sh]

\* retrieval as a host reference: the address stored in the record
get(r, p, sh) == [addr |-> r.addr, shared |-> sh]

\* lua.set(name, x) / lua.set(name, &x) / lua.set(name, std::ref(x))
SetObject(name, how, a) ==
    /\ lstate = "open"
    /\ host[a].alive
    /\ Len(heap) < MaxRecords
    /\ LET p == Len(heap) + 1
           s1 == stack \o <<UserData(p, TRUE)>>
           g == lua_setglobal(s1, globals, name)
       IN  /\ heap' = Append(heap, new_record(p, how, a, host[a].boop))
           /\ stack' = g.stack
           /\ globals' = g.globals
    /\ counters' = IF bind_mode(how) = "owned-value"
                   THEN [counters EXCEPT !.created = @ + 1] ELSE counters
    /\ UNCHANGED <<lastcall, registered, host, shared, lstate, lastres>>

\* lua.set(name, sharedint): the record holds a copy of the handle
SetShared(name) ==
    /\ lstate = "open"
    /\ shared.hosthandles > 0
    /\ Len(heap) < MaxRecords
    /\ LET p == Len(heap) + 1
           s1 == stack \o <<UserData(p, TRUE)>>
           g == lua_setglobal(s1, globals, name)
       IN  /\ heap' = Append(heap, new_record(p, "shared", 0, 0))
           /\ stack' = g.stack
           /\ globals' = g.globals
    /\ shared' = [shared EXCEPT !.count = @ + 1]
    /\ UNCHANGED <<lastcall, registered, host, counters, lstate, lastres>>

\* a script constructs an object of the bound type: name = Type.new()
ScriptNew(name) ==
    /\ lstate = "open"
    /\ Len(heap) < MaxRecords
    /\ LET p == Len(heap) + 1
           s1 == stack \o <<UserData(p, TRUE)>>
           g == lua_setglobal(s1, globals, name)
       IN  /\ heap' = Append(heap, new_record(p, "value", 0, 0))
           /\ stack' = g.stack
           /\ globals' = g.globals
    /\ counters' = [counters EXCEPT !.created = @ + 1]
    /\ UNCHANGED <<lastcall, registered, host, shared, lstate, lastres>>

\* lua.set(name, sol::nil): whatever the name held becomes unreachable
SetNil(name) ==
    /\ lstate = "open"
    /\ GetGlobal(globals, name) # Nil
    /\ LET g == lua_setglobal(stack \o <<Nil>>, globals, name)
       IN  /\ stack' = g.stack
           /\ globals' = g.globals
    /\ UNCHANGED <<lastcall, heap, registered, host, shared, counters, lstate,
                   lastres>>

\* T& r = lua[name]
Get(name) ==
    /\ lstate = "open"
    /\ GetGlobal(globals, name).k = "userdata"
    /\ LET p == GetGlobal(globals, name).v.ptr
           r == get(heap[p], p, shared)
       IN  /\ lastres' = [done |-> TRUE, name |-> name, rec |-> p,
                          addr |-> r.addr, how |-> heap[p].how,
                          from |-> heap[p].from,
                          seen |-> IF Valid(r.addr, heap, host)
                                   THEN Deref(r.addr, heap, host) ELSE 0]
           /\ shared' = r.shared
    /\ UNCHANGED <<stack, lastcall, globals, heap, registered, host, counters,
                   lstate>>

\* the runtime's collector reclaims one unreachable record
Collect(p) ==
    /\ lstate = "open"
    /\ ~heap[p].collected
    /\ ~Reachable(globals, p)
    /\ LET hp2 == Finalized(heap, {p})
       IN  /\ heap' = hp2
           /\ counters' = [counters EXCEPT
                              !.destroyed = @ + DestructorRuns(heap, hp2)]
           /\ shared' = release(shared, HandleReleases(heap, hp2))
    /\ UNCHANGED <<stack, lastcall, globals, registered, host, lstate, lastres>>

\* the sol::state goes out of scope: lua_close finalizes what is left
Close ==
    /\ lstate = "open"
    /\ LET hp2 == Finalized(heap, {p \in 1..Len(heap) : ~heap[p].collected})
       IN  /\ heap' = hp2
           /\ counters' = [counters EXCEPT
                              !.destroyed = @ + DestructorRuns(heap, hp2)]
           /\ shared' = release(shared, HandleReleases(heap, hp2))
    /\ lstate' = "closed"
    /\ globals' = <<>>
    /\ stack' = <<>>
    /\ UNCHANGED <<lastcall, registered, host, lastres>>

\* the host writes a member of its own object: var.boop = 2
HostMutate(a) ==
    /\ host[a].alive
    /\ host[a].boop = 0
    /\ host' = [host EXCEPT ![a].boop = 1]
    /\ UNCHANGED <<stack, lastcall, globals, heap, registered, shared, counters,
                   lstate, lastres>>

\* a host object goes out of scope
HostDestroy(a) ==
    /\ host[a].alive
    /\ host' = [host EXCEPT ![a] = [alive |-> FALSE, boop |-> 0]]
    /\ counters' = [counters EXCEPT !.destroyed = @ + 1]
    /\ UNCHANGED <<stack, lastcall, globals, heap, registered, shared, lstate,
                   lastres>>

\* std::shared_ptr<T> moreref = sharedint
HostCopyShared ==
    /\ shared.hosthandles > 0
    /\ shared.hosthandles < MaxHandles
    /\ shared' = [shared EXCEPT !.hosthandles = @ + 1, !.count = @ + 1]
    /\ UNCHANGED <<stack, lastcall, globals, heap, registered, host, counters,
                   lstate, lastres>>

\* one of the host's shared handles goes out of scope
HostReleaseShared ==
    /\ shared.hosthandles > 0
    /\ shared' = [release(shared, 1) EXCEPT !.hosthandles = @ - 1]
    /\ UNCHANGED <<stack, lastcall, globals, heap, registered, host, counters,
                   lstate, lastres>>

InitLifetime ==
    /\ stack = <<>>
    /\ lastcall = NoCall
    /\ globals = <<>>
    /\ heap = <<>>
    /\ registered = <<>>
    /\ host = [a \in HostObjs |-> [alive |-> TRUE, boop |-> 0]]
    /\ shared = [count |-> 0, alive |-> FALSE, hosthandles |-> 0]
    /\ counters = [created |-> NHost, destroyed |-> 0]
    /\ lstate = "open"
    /\ lastres = NoRes

NextLifetime ==
    \/ \E name \in Names, how \in Hows, a \in HostObjs :
           SetObject(name, how, a)
    \/ \E name \in Names : ScriptNew(name)
    \/ \E name \in Names : SetNil(name)
    \/ \E name \in Names : Get(name)
    \/ \E p \in 1..Len(heap) : Collect(p)
    \/ Close
    \/ \E a \in HostObjs : HostMutate(a)
    \/ \E a \in HostObjs : HostDestroy(a)

SpecLifetime == InitLifetime /\ [][NextLifetime]_vars

(***************************************************************************)
(* The shared handle alone: the host's std::shared_ptr, the copies the     *)
(* runtime's records hold, and the references host code retrieves.         *)
(***************************************************************************)
InitShared ==
    /\ stack = <<>>
    /\ lastcall = NoCall
    /\ globals = <<>>
    /\ heap = <<>>
    /\ registered = <<>>
    /\ host = <<>>
    /\ shared = [count |-> 1, alive |-> TRUE, hosthandles |-> 1]
    /\ counters = [created |-> 0, destroyed |-> 0]
    /\ lstate = "open"
    /\ lastres = NoRes

NextShared ==
    \/ \E name \in Names : SetShared(name)
    \/ \E name \in Names : SetNil(name)
    \/ \E name \in Names : Get(name)
    \/ \E p \in 1..Len(heap) : Collect(p)
    \/ Close
    \/ HostCopyShared
    \/ HostReleaseShared

SpecShared == InitShared /\ [][NextShared]_vars

(***************************************************************************)
(* Binding member functions: pusher<function_sig<Sigs...>>::set.  The host *)
(* supplies the receiver as                                                *)
(*   "pointer"            a pointer prvalue (&obj): T is C*                *)
(*   "pointer_lvalue"     a pointer variable: T is C*&, for which          *)
(*                        std::is_pointer<T> is false                      *)
(*   "reference_wrapper"  std::ref(obj)                                    *)
(*   "lvalue", "rvalue"   the object itself                                *)
(* The bound member function reads the receiver's member boop.             *)
(***************************************************************************)
BindHows == {"pointer", "pointer_lvalue", "reference_wrapper", "lvalue",
             "rvalue"}

CodeAddr(i) == [space |-> "code", at |-> i]

LightUserData(what, addr) ==
    [k |-> "lightuserdata", v |-> [what |-> what, at |-> addr]]

\* the member function pointer's bytes, one slot per pointer-sized chunk
MemFxSlots(fx) == <<LightUserData(fx, CodeAddr(1)), LightUserData(fx, CodeAddr(2))>>

\* stack::stack_detail::push_as_upvalues: the slots and their count
push_as_upvalues(stk, fx) ==
    [stack |-> stk \o MemFxSlots(fx), count |-> Len(MemFxSlots(fx))]

set_memberWithNullReceiver(stk, fx) ==
    LET u == push_as_upvalues(stk, fx)
    IN  push_closure(u.stack \o <<LightUserData("object", CodeAddr(0))>>,
                     "upvalue_this_member_function::call", u.count + 1)

\* set(L, R (C::*memfxptr)(Args...)): no receiver, the pointer's bytes only
set_member(stk, fx) ==
    LET u == push_as_upvalues(stk, fx)
    IN  push_closure(u.stack, "upvalue_this_member_function::call", u.count)

is_referenceAlways(how) == TRUE

\* meta::is_specialization_of<Unqualified<T>, std::reference_wrapper>
\*     || std::is_pointer<T>
is_reference(how) == how = "reference_wrapper" \/ how = "pointer"

\* set_fx(std::true_type, L, fx, obj): the pointer's bytes, then the object's
\* address (detail::ptr(obj)) as one more upvalue
set_fx_ref(stk, fx, a) ==
    LET u == push_as_upvalues(stk, fx)
        s2 == u.stack \o <<LightUserData("object", HostAddr(a))>>
    IN  push_closure(s2, "upvalue_member_function::call", u.count + 1)

\* function_detail::member_function<Fx, T>(obj, fx) allocated at heap index p:
\* T member is a copy of what the host gave, the object or the pointer
member_function(p, fx, how, a, hs) ==
    [type |-> "member_function", fx |-> fx,
     addr |-> IF how = "pointer_lvalue" \/ how = "pointer" THEN HostAddr(a)
              ELSE StorageAddr(p),
     boop |-> IF how = "pointer_lvalue" \/ how = "pointer" THEN 0
              ELSE hs[a].boop,
     collected |-> FALSE]

set_reference_fx(stk, hp, isref, fx, how, a, hs) ==
    IF isref THEN [stack |-> set_fx_ref(stk, fx, a), heap |-> hp]
    ELSE set_fx_ptr(stk, hp, member_function(Len(hp) + 1, fx, how, a, hs))

\* set(L, R (C::*memfxptr)(Args...), T&& obj)
set_member_obj(stk, hp, fx, how, a, hs) ==
    set_reference_fx(stk, hp, is_reference(how), fx, how, a, hs)

\* the receiver a trampoline with a bound receiver invokes the member on:
\* upvalue_member_function::call reads the address from the last upvalue,
\* function_detail::call runs the heap object, which uses its member
bound_receiver(cl, hp) ==
    IF cl.v.fn = "upvalue_member_function::call"
    THEN cl.v.up[Len(cl.v.up)].v.at
    ELSE hp[cl.v.up[1].v.ptr].addr

\* upvalue_this_member_function::call: the receiver is the object of the
\* first argument of the call
this_receiver(cl, hp, args) == hp[args[1].v.ptr].addr

HeapNeeded(how) == IF is_reference(how) THEN 0 ELSE 1

\* lua.set_function("fun", &T::get, receiver)
SetMemberObj(how, a) ==
    /\ host[a].alive
    /\ Len(heap) + HeapNeeded(how) <= MaxRecords
    /\ LET p == set_member_obj(stack, heap, "get", how, a, host)
           g == lua_setglobal(p.stack, globals, "fun")
       IN  /\ stack' = g.stack
           /\ globals' = g.globals
           /\ heap' = p.heap
    /\ registered' = [how |-> how, from |-> a, boop |-> host[a].boop]
    /\ UNCHANGED <<lastcall, host, shared, counters, lstate, lastres>>

\* lua.set_function("fun", &T::get)
SetMember ==
    /\ LET g == lua_setglobal(set_member(stack, "get"), globals, "fun")
       IN  /\ stack' = g.stack
           /\ globals' = g.globals
    /\ registered' = [how |-> "none", from |-> 0, boop |-> 0]
    /\ UNCHANGED <<lastcall, heap, host, shared, counters, lstate, lastres>>

IsClosure(v) == v.k = "cclosure"

\* lua.script("r = fun()") on a binding that carries its receiver
CallBound ==
    /\ IsClosure(GetGlobal(globals, "fun"))
    /\ GetGlobal(globals, "fun").v.fn # "upvalue_this_member_function::call"
    /\ LET cl == GetGlobal(globals, "fun")
           recv == bound_receiver(cl, heap)
       IN  \E v \in 0..1 :
               /\ Valid(recv, heap, host) => v = Deref(recv, heap, host)
               /\ lastres' = [done |-> TRUE, kind |-> "bound", closure |-> cl,
                              self |-> 0, recv |-> recv, error |-> FALSE,
                              how |-> registered.how,
                              from |-> registered.from,
                              bindboop |-> registered.boop,
                              hostalive |-> host[registered.from].alive,
                              hostboop |-> host[registered.from].boop,
                              result |-> v,
                              ub |-> ~Valid(recv, heap, host)]
    /\ UNCHANGED <<stack, lastcall, globals, heap, registered, host, shared,
                   counters, lstate>>

\* lua.script("r = beep:fun()") on a binding without a receiver
CallMethod(name) ==
    /\ IsClosure(GetGlobal(globals, "fun"))
    /\ GetGlobal(globals, "fun").v.fn = "upvalue_this_member_function::call"
    /\ GetGlobal(globals, name).k = "userdata"
    /\ LET cl == GetGlobal(globals, "fun")
           self == GetGlobal(globals, name)
           recv == this_receiver(cl, heap, <<self>>)
       IN  lastres' = [done |-> TRUE, kind |-> "this", closure |-> cl,
                       self |-> self.v.ptr, recv |-> recv, error |-> FALSE,
                       how |-> "none", from |-> 0, bindboop |-> 0,
                       hostalive |-> FALSE, hostboop |-> 0,
                       result |-> Deref(recv, heap, host), ub |-> FALSE]
    /\ UNCHANGED <<stack, lastcall, globals, heap, registered, host, shared,
                   counters, lstate>>

InitBind ==
    /\ stack = <<>>
    /\ lastcall = NoCall
    /\ globals = <<>>
    /\ heap = <<>>
    /\ registered = <<>>
    /\ host = [a \in HostObjs |-> [alive |-> TRUE, boop |-> 0]]
    /\ lastres = NoRes
    /\ IdleLifetime

NextBind ==
    \/ \E how \in BindHows, a \in HostObjs : SetMemberObj(how, a)
    \/ SetMember
    \/ \E name \in Names : ScriptNew(name)
    \/ CallBound
    \/ \E name \in Names : CallMethod(name)
    \/ \E a \in HostObjs : HostMutate(a)
    \/ \E a \in HostObjs : HostDestroy(a)

SpecBind == InitBind /\ [][NextBind]_vars

(***************************************************************************)
(* The callable binder, pusher<function_sig<Sigs...>>: a host callable and *)
(* the signature it is handed with (none, or R(Args...)) are classified    *)
(* into one closure.  A callable is a record: its kind, its identity, and  *)
(* for a member function with a receiver the form and the host object.     *)
(***************************************************************************)
free_function(i) == [kind |-> "function", id |-> i, how |-> "none", from |-> 0]
stateless_lambda(i) == [kind |-> "stateless", id |-> i, how |-> "none", from |-> 0]
stateful_lambda(i) == [kind |-> "stateful", id |-> i, how |-> "none", from |-> 0]
std_function(i) == [kind |-> "std::function", id |-> i, how |-> "none", from |-> 0]
memfx_only == [kind |-> "member", id |-> 0, how |-> "none", from |-> 0]
memfx_with(how, a) == [kind |-> "member_obj", id |-> 0, how |-> how, from |-> a]

Functors == {"stateless", "stateful", "std::function"}
Sigs == {"none", "R(Args...)"}

\* the address of a free function, and of the function a stateless closure
\* converts to
FunctionAddr(i) == CodeAddr(10 + i)
ConversionAddr(i) == CodeAddr(20 + i)

\* detail::unwrap(fx) converted to fx_ptr_t
unwrap(fx) == ConversionAddr(fx.id)

\* stack::stack_detail::push_as_upvalues for a function pointer: one slot
push_fxptr_as_upvalues(stk, addr) ==
    [stack |-> stk \o <<LightUserData("function", addr)>>, count |-> 1]

\* set_fx(std::false_type, L, fx): the pointer's bytes as upvalues of
\* upvalue_free_function::call
set_fx_free(stk, addr) ==
    LET u == push_fxptr_as_upvalues(stk, addr)
    IN  push_closure(u.stack, "upvalue_free_function::call", u.count)

\* function_detail::functor_function<fx_t>(fx): a copy of the whole closure
functor_function(p, fx) ==
    [type |-> "functor_function", fx |-> fx, addr |-> StorageAddr(p),
     boop |-> 0, collected |-> FALSE]

\* function_detail::member_function<&fx_t::operator(), fx_t>: the closure's
\* call operator with a copy of the closure as its receiver
call_operator_function(p, fx) ==
    [type |-> "member_function", fx |-> "operator()", obj |-> fx,
     addr |-> StorageAddr(p), boop |-> 0, collected |-> FALSE]

\* std::is_convertible<raw_fx_t, fx_ptr_t>
is_convertible(fx) == fx.kind = "stateless"

set_isconvertible_fx(conv, stk, hp, fx) ==
    IF conv THEN [stack |-> set_fx_free(stk, unwrap(fx)), heap |-> hp]
    ELSE set_fx_ptr(stk, hp, functor_function(Len(hp) + 1, fx))

\* set_memfx(types<R(Args...)>, ...) and set_memfx(types<>, ...)
set_memfx(sig, stk, hp, fx) ==
    IF sig = "none"
    THEN set_fx_ptr(stk, hp, call_operator_function(Len(hp) + 1, fx))
    ELSE set_isconvertible_fx(is_convertible(fx), stk, hp, fx)

\* the overloads of set, chosen by the static type of the callable
pusher_set(sig, stk, hp, fx, hs) ==
    IF fx.kind = "function"
    THEN [stack |-> set_fx_free(stk, FunctionAddr(fx.id)), heap |-> hp]
    ELSE IF fx.kind = "member"
    THEN [stack |-> set_member(stk, "get"), heap |-> hp]
    ELSE IF fx.kind = "member_obj"
    THEN set_member_obj(stk, hp, "get", fx.how, fx.from, hs)
    ELSE set_memfx(sig, stk, hp, fx)

\* pusher<function_sig<Sigs...>>::push
push(sig, stk, hp, fx, hs) ==
    LET r == pusher_set(sig, stk, hp, fx, hs)
    IN  [stack |-> r.stack, heap |-> r.heap, count |-> 1]

\* pusher<std::function<Signature>>::push: pusher<function_sig<>>
push_std_function(stk, hp, fx, hs) == push("none", stk, hp, fx, hs)

(***************************************************************************)
(* What a call through a bound closure runs: each trampoline reads its     *)
(* call state (upvalues, or the heap object its userdata points to) and    *)
(* invokes the callable it finds there.                                    *)
(***************************************************************************)
NoAddr == [space |-> "none", at |-> 0]
overload_callable == [kind |-> "overload", id |-> 0, how |-> "none", from |-> 0]

\* the function that lives at a code address
callee_at(addr) ==
    IF addr.at > 20 THEN stateless_lambda(addr.at - 20)
    ELSE free_function(addr.at - 10)

Target(callee, recv, set) == [callee |-> callee, recv |-> recv, set |-> set]

trampoline(cl, hp) ==
    IF cl.v.fn = "upvalue_free_function::call"
    THEN Target(callee_at(cl.v.up[1].v.at), NoAddr, <<>>)
    ELSE IF cl.v.fn = "upvalue_this_member_function::call"
    THEN Target(memfx_only, [space |-> "argument", at |-> 1], <<>>)
    ELSE IF cl.v.fn = "upvalue_member_function::call"
    THEN Target(memfx_only, cl.v.up[Len(cl.v.up)].v.at, <<>>)
    ELSE LET target == hp[cl.v.up[1].v.ptr]
         IN  IF target.type = "overloaded_function"
             THEN Target(overload_callable, NoAddr, target.set)
             ELSE IF target.type = "member_function"
             THEN IF target.fx = "operator()"
                  THEN Target(target.obj, target.addr, <<>>)
                  ELSE Target(memfx_only, target.addr, <<>>)
             ELSE Target(target.fx, target.addr, <<>>)

(***************************************************************************)
(* Binding callables under a name and pushing them on the stack.           *)
(***************************************************************************)
BindCallables ==
    {free_function(1), stateless_lambda(1), stateful_lambda(1),
     std_function(1), memfx_only}
    \cup {memfx_with(how, a) : how \in BindHows, a \in HostObjs}

PushSets == {<<func_1, func_1s>>, <<func_1s, func_1>>}

\* the signatures a callable can be handed with: only a function object
\* can come with or without one
SigsOf(c) == IF c.kind \in Functors THEN Sigs ELSE {"none"}

\* table::set_function<Sig...>(key, fx), the step between set_function and
\* the binder (table.hpp): a function object bound without a signature is
\* handed to the binder with the signature of its call operator, so the
\* binder tests is_convertible for it (tests.cpp:575-606: a stateless
\* lambda is optimised, a stateful one cannot be)
deduce(sig, fx) ==
    IF sig = "none" /\ fx.kind \in Functors THEN "R(Args...)" ELSE sig

NoClosureOnStack == \A i \in 1..Len(stack) : stack[i].k # "cclosure"

\* a call-state object the runtime has finalized and freed
Freed == [type |-> "freed", addr |-> NoAddr, boop |-> 0, collected |-> TRUE]

\* the closure v keeps the heap object p alive through its userdata upvalue
HoldsCallState(v, p) ==
    /\ v.k = "cclosure"
    /\ v.v.fn = "function_detail::call"
    /\ v.v.up[1].v.ptr = p

Referenced(p, stk, g) ==
    \/ \E i \in 1..Len(stk) : HoldsCallState(stk[i], p)
    \/ \E n \in DOMAIN g : HoldsCallState(g[n], p)

\* a full collection: every unreferenced call-state object is freed
collect_garbage(hp, stk, g) ==
    [p \in 1..Len(hp) |-> IF Referenced(p, stk, g) THEN hp[p] ELSE Freed]

NoGarbage == collect_garbage(heap, stack, globals) = heap

\* lua.collect_garbage()
CollectGarbage ==
    /\ ~NoGarbage
    /\ heap' = collect_garbage(heap, stack, globals)
    /\ UNCHANGED <<stack, lastcall, globals, registered, host, shared,
                   counters, lstate, lastres>>

Pushed(what, sig, p) ==
    [done |-> TRUE, kind |-> "push", what |-> what, sig |-> sig,
     pre |-> Len(stack), post |-> Len(p.stack), count |-> p.count,
     kept |-> SubSeq(p.stack, 1, Len(stack)) = stack,
     top |-> p.stack[Len(p.stack)],
     allocated |-> Len(p.heap) - Len(heap)]

\* stack::push<function_sig<Sigs...>>(L, fx)
PushCallable(sig, c) ==
    /\ NoClosureOnStack
    /\ NoGarbage
    /\ Len(stack) <= MaxPre
    /\ c.kind = "member_obj" => host[c.from].alive
    /\ LET p == IF c.kind = "std::function" /\ sig = "none"
                THEN push_std_function(stack, heap, c, host)
                ELSE push(sig, stack, heap, c, host)
       IN  /\ Len(p.heap) <= MaxRecords
           /\ stack' = p.stack
           /\ heap' = p.heap
           /\ lastres' = Pushed(c.kind, sig, p)
    /\ UNCHANGED <<lastcall, globals, registered, host, shared, counters,
                   lstate>>

\* stack::push(L, sol::overload(...))
PushOverload(set) ==
    /\ NoClosureOnStack
    /\ NoGarbage
    /\ Len(stack) <= MaxPre
    /\ LET p == overload_set_push(stack, heap, set)
       IN  /\ Len(p.heap) <= MaxRecords
           /\ stack' = p.stack
           /\ heap' = p.heap
           /\ lastres' = Pushed("overload", "none", p)
    /\ UNCHANGED <<lastcall, globals, registered, host, shared, counters,
                   lstate>>

Bound(c, sig, set, p, g) ==
    [done |-> TRUE, kind |-> "bind", c |-> c, sig |-> sig, set |-> set,
     closure |-> GetGlobal(g.globals, "fun"),
     pre |-> Len(stack), post |-> Len(g.stack),
     allocated |-> Len(p.heap) - Len(heap)]

\* lua.set_function<Sig...>("fun", fx)
SetFunction(sig, c) ==
    /\ NoGarbage
    /\ c.kind = "member_obj" => host[c.from].alive
    /\ LET p == push(deduce(sig, c), stack, heap, c, host)
           g == lua_setglobal(p.stack, globals, "fun")
       IN  /\ Len(p.heap) <= MaxRecords
           /\ stack' = g.stack
           /\ globals' = g.globals
           /\ heap' = p.heap
           /\ lastres' = Bound(c, sig, <<>>, p, g)
    /\ registered' = [c |-> c, set |-> <<>>, over |-> registered.c.kind]
    /\ UNCHANGED <<lastcall, host, shared, counters, lstate>>

\* lua.set_function("fun", sol::overload(...))
SetFunctionOverload(set) ==
    /\ NoGarbage
    /\ LET p == overload_set_push(stack, heap, set)
           g == lua_setglobal(p.stack, globals, "fun")
       IN  /\ Len(p.heap) <= MaxRecords
           /\ stack' = g.stack
           /\ globals' = g.globals
           /\ heap' = p.heap
           /\ lastres' = Bound(overload_callable, "none", set, p, g)
    /\ registered' = [c |-> overload_callable, set |-> set,
                      over |-> registered.c.kind]
    /\ UNCHANGED <<lastcall, host, shared, counters, lstate>>

\* lua.script("fun()"): the runtime calls the closure the name holds
ScriptCall ==
    /\ IsClosure(GetGlobal(globals, "fun"))
    /\ lastres' = [done |-> TRUE, kind |-> "call",
                   target |-> trampoline(GetGlobal(globals, "fun"), heap),
                   bound |-> registered]
    /\ UNCHANGED <<stack, lastcall, globals, heap, registered, host, shared,
                   counters, lstate>>

InitPush == InitBind

NextPush ==
    \/ \E c \in BindCallables : \E sig \in SigsOf(c) : PushCallable(sig, c)
    \/ \E set \in PushSets : PushOverload(set)
    \/ CollectGarbage
    \/ Push(Nil)
    \/ Pop

SpecPush == InitPush /\ [][NextPush]_vars

unbound == [kind |-> "unbound", id |-> 0, how |-> "none", from |-> 0]

InitRebind ==
    /\ stack = <<>>
    /\ lastcall = NoCall
    /\ globals = <<>>
    /\ heap = <<>>
    /\ registered = [c |-> unbound, set |-> <<>>, over |-> "unbound"]
    /\ host = [a \in HostObjs |-> [alive |-> TRUE, boop |-> 0]]
    /\ lastres = NoRes
    /\ IdleLifetime

NextRebind ==
    \/ \E c \in BindCallables : \E sig \in SigsOf(c) : SetFunction(sig, c)
    \/ \E set \in PushSets : SetFunctionOverload(set)
    \/ ScriptCall
    \/ CollectGarbage
    \/ Push(Nil)
    \/ Pop

SpecRebind == InitRebind /\ [][NextRebind]_vars

\* the binder reached both ways: through set_function, and directly through
\* stack::push<function_sig<Sigs...>>
NextBinder ==
    \/ \E c \in BindCallables : \E sig \in SigsOf(c) : SetFunction(sig, c)
    \/ \E c \in BindCallables : \E sig \in SigsOf(c) : PushCallable(sig, c)
    \/ CollectGarbage
    \/ Pop

SpecBinder == InitRebind /\ [][NextBinder]_vars

(***************************************************************************)
(* Tables and fields (stack_field.hpp).  A table value refers to a table:  *)
(* 0 is the global table, whose fields are the variable globals, and i > 0 *)
(* is the table heap[i].  The fields of a table are a function from keys   *)
(* (Lua values) to values; an absent key reads as nil.                     *)
(***************************************************************************)
Bool(b) == [k |-> "boolean", v |-> b]
Tbl(i) == [k |-> "table", v |-> i]
GlobalTable == Tbl(0)
NoFields == [x \in {} |-> Nil]
Table(f) == [type |-> "table", fields |-> f]

\* lua_absindex(L, idx)
lua_absindex(stk, idx) == IF idx > 0 THEN idx ELSE Len(stk) + idx + 1

FieldsOf(t, g, hp) == IF t.v = 0 THEN g ELSE hp[t.v].fields

RawGet(t, key, g, hp) == GetGlobal(FieldsOf(t, g, hp), key)

\* storing nil under a key removes the key
Assign(f, key, val) ==
    IF val = Nil THEN [n \in (DOMAIN f) \ {key} |-> f[n]]
    ELSE [n \in (DOMAIN f) \cup {key} |-> IF n = key THEN val ELSE f[n]]

\* t[key] = val, in the global table or in a table of the heap
RawSet(t, key, val, g, hp) ==
    IF t.v = 0 THEN [globals |-> Assign(g, key, val), heap |-> hp]
    ELSE [globals |-> g,
          heap |-> [hp EXCEPT ![t.v] = Table(Assign(hp[t.v].fields, key, val))]]

PopN(stk, n) == SubSeq(stk, 1, Len(stk) - n)
Top(stk) == stk[Len(stk)]

\* lua_gettable(L, idx): the key on top is replaced by t[key]
lua_gettable(stk, g, hp, idx) ==
    PopN(stk, 1) \o <<RawGet(stk[lua_absindex(stk, idx)], Top(stk), g, hp)>>

\* lua_getfield(L, idx, k) and lua_geti(L, idx, n): t[k] is pushed
lua_getfield(stk, g, hp, idx, key) ==
    stk \o <<RawGet(stk[lua_absindex(stk, idx)], key, g, hp)>>

\* lua_getglobal(L, name)
lua_getglobal(stk, g, hp, key) == stk \o <<RawGet(GlobalTable, key, g, hp)>>

\* lua_settable(L, idx): t[key] = value, key below the value on top; both
\* are popped
lua_settable(stk, g, hp, idx) ==
    LET r == RawSet(stk[lua_absindex(stk, idx)], stk[Len(stk) - 1], Top(stk),
                    g, hp)
    IN  [stack |-> PopN(stk, 2), globals |-> r.globals, heap |-> r.heap]

\* lua_setfield(L, idx, k) and lua_seti(L, idx, n): t[k] = the value on top,
\* which is popped
lua_setfield(stk, g, hp, idx, key) ==
    LET r == RawSet(stk[lua_absindex(stk, idx)], key, Top(stk), g, hp)
    IN  [stack |-> PopN(stk, 1), globals |-> r.globals, heap |-> r.heap]

\* the field_getter and field_setter a key selects: a string key is a C
\* string, on the global table (global) or on the table at tableindex
IsCStr(key) == key.k = "string"
IsIntegral(key) == key.k = "number"

field_getterKeepsKey(stk, g, hp, glob, key, tableindex) ==
    IF IsCStr(key) /\ glob THEN lua_getglobal(stk, g, hp, key)
    ELSE IF (IsCStr(key) \/ IsIntegral(key)) /\ ~glob
    THEN LET r == lua_getfield(stk, g, hp, tableindex, key)
         IN  PopN(r, 1) \o <<key, Top(r)>>
    ELSE LET r == lua_gettable(stk \o <<key>>, g, hp, tableindex)
         IN  PopN(r, 1) \o <<key, Top(r)>>

\* field_getter<T, b, C>::get(L, key, tableindex)
field_getter(stk, g, hp, glob, key, tableindex) ==
    IF IsCStr(key) /\ glob THEN lua_getglobal(stk, g, hp, key)
    ELSE IF (IsCStr(key) \/ IsIntegral(key)) /\ ~glob
    THEN lua_getfield(stk, g, hp, tableindex, key)
    ELSE lua_gettable(stk \o <<key>>, g, hp, tableindex)

\* the default tableindex of each field_getter
getter_default(glob, key) ==
    IF (IsCStr(key) \/ IsIntegral(key)) /\ ~glob THEN -1
    ELSE IF IsCStr(key) THEN -1 ELSE -2

field_setterStoresKey(stk, g, hp, glob, key, val, tableindex) ==
    IF IsCStr(key) /\ glob THEN lua_setglobal(stk \o <<key>>, g, key) @@
                                [heap |-> hp]
    ELSE IF (IsCStr(key) \/ IsIntegral(key)) /\ ~glob
    THEN lua_setfield(stk \o <<key>>, g, hp, tableindex, key)
    ELSE lua_settable(stk \o <<val, key>>, g, hp, tableindex)

\* field_setter<T, b, C>::set(L, key, value, tableindex)
field_setter(stk, g, hp, glob, key, val, tableindex) ==
    IF IsCStr(key) /\ glob THEN lua_setglobal(stk \o <<val>>, g, key) @@
                                [heap |-> hp]
    ELSE IF (IsCStr(key) \/ IsIntegral(key)) /\ ~glob
    THEN lua_setfield(stk \o <<val>>, g, hp, tableindex, key)
    ELSE lua_settable(stk \o <<key, val>>, g, hp, tableindex)

\* the default tableindex of each field_setter
setter_default(glob, key) ==
    IF (IsCStr(key) \/ IsIntegral(key)) /\ ~glob THEN -2
    ELSE IF IsCStr(key) THEN -2 ELSE -3

(***************************************************************************)
(* Host values and their conversions.  A host value is a record [t, v]:    *)
(* its static type and its value (a boolean as 0 or 1, a string by its     *)
(* number).  stack::push picks the pusher by the static type; a getter     *)
(* checks the slot's kind against the type asked for before converting.    *)
(***************************************************************************)
HostTypes == {"int", "bool", "string", "nil"}
HostValue(t, v) == [t |-> t, v |-> v]
HostValues ==
    {HostValue("int", 7), HostValue("bool", 1), HostValue("string", 1),
     HostValue("nil", 0)}

\* stack::push(L, value)
stack_push(hv) ==
    IF hv.t = "int" THEN Num(hv.v)
    ELSE IF hv.t = "bool" THEN Bool(hv.v)
    ELSE IF hv.t = "string" THEN Str(hv.v)
    ELSE IF hv.t = "table" THEN Tbl(hv.v)
    ELSE Nil

\* the kind of slot a host type is read from
expected_kind(t) ==
    IF t = "int" THEN "number"
    ELSE IF t = "bool" THEN "boolean"
    ELSE IF t = "string" THEN "string"
    ELSE IF t = "table" THEN "table"
    ELSE "nil"

\* stack::get<T>(L, -1) under SOL_CHECK_ARGUMENTS: a slot of another kind is
\* a conversion error
stack_get(t, lv) ==
    IF lv.k = expected_kind(t)
    THEN [error |-> FALSE, value |-> HostValue(t, lv.v)]
    ELSE [error |-> TRUE, value |-> HostValue("nil", 0)]

(***************************************************************************)
(* The host-facing accessors of a table (state_view forwards to the global *)
(* table).  The table is pushed unless every key is a C string on the      *)
(* global table, each key is read or written through its field_getter or   *)
(* field_setter, and what was pushed is popped again.                      *)
(***************************************************************************)
is_global(t, keys) == t.v = 0 /\ \A i \in 1..Len(keys) : IsCStr(keys[i])

\* stack::push_pop<global>(table): the table is pushed unless global
push_pop(glob, stk, t) == IF glob THEN stk ELSE stk \o <<t>>

get_field(stk, g, hp, glob, key) ==
    field_getter(stk, g, hp, glob, key, getter_default(glob, key))

set_field(stk, g, hp, glob, key, val) ==
    field_setter(stk, g, hp, glob, key, val, setter_default(glob, key))

\* keys[1..n] read one after the other, each from the value the one before
\* it left on top; the first from the global table when glob
RECURSIVE traverse_get_deep(_, _, _, _, _)
traverse_get_deep(stk, g, hp, glob, keys) ==
    IF Len(keys) = 0 THEN stk
    ELSE traverse_get_deep(get_field(stk, g, hp, glob, keys[1]), g, hp,
                           FALSE, Tail(keys))

\* table::traverse_get<T>(keys...)
traverse_get(stk, g, hp, t, ty, keys) ==
    LET glob == is_global(t, keys)
        s1 == push_pop(glob, stk, t)
        s2 == traverse_get_deep(s1, g, hp, glob, keys)
        r == stack_get(ty, Top(s2))
        s3 == PopN(s2, Len(keys))
    IN  [stack |-> IF glob THEN s3 ELSE PopN(s3, 1), error |-> r.error,
         value |-> r.value]

\* table::traverse_set(keys..., value)
traverse_set(stk, g, hp, t, keys, hv) ==
    LET glob == is_global(t, keys)
        n == Len(keys)
        s1 == push_pop(glob, stk, t)
        s2 == traverse_get_deep(s1, g, hp, glob, SubSeq(keys, 1, n - 1))
        r == set_field(s2, g, hp, glob /\ n = 1, keys[n], stack_push(hv))
        s3 == PopN(r.stack, n - 1)
    IN  [stack |-> IF glob THEN s3 ELSE PopN(s3, 1), globals |-> r.globals,
         heap |-> r.heap]

\* table::set(key, value, key, value, ...)
RECURSIVE tuple_set(_, _, _, _, _, _)
tuple_set(stk, g, hp, glob, keys, hvs) ==
    IF Len(keys) = 0 THEN [stack |-> stk, globals |-> g, heap |-> hp]
    ELSE LET r == set_field(stk, g, hp, glob, keys[1], stack_push(hvs[1]))
         IN  tuple_set(r.stack, r.globals, r.heap, glob, Tail(keys),
                       Tail(hvs))

table_set(stk, g, hp, t, keys, hvs) ==
    LET glob == is_global(t, keys)
        r == tuple_set(push_pop(glob, stk, t), g, hp, glob, keys, hvs)
    IN  [stack |-> IF glob THEN r.stack ELSE PopN(r.stack, 1),
         globals |-> r.globals, heap |-> r.heap]

\* table::get<T...>(keys...): every key is read from the table itself, at
\* its absolute index, and the values are popped into host values
RECURSIVE tuple_get(_, _, _, _, _, _)
tuple_get(stk, g, hp, glob, keys, at) ==
    IF Len(keys) = 0 THEN stk
    ELSE LET key == keys[1]
             idx == IF (IsCStr(key) \/ IsIntegral(key)) /\ ~glob THEN at
                    ELSE IF IsCStr(key) THEN -1 ELSE at
         IN  tuple_get(field_getter(stk, g, hp, glob, key, idx), g, hp,
                       glob, Tail(keys), at)

table_get(stk, g, hp, t, tys, keys) ==
    LET glob == is_global(t, keys)
        s1 == push_pop(glob, stk, t)
        s2 == tuple_get(s1, g, hp, glob, keys, Len(s1))
        n == Len(keys)
        got == [i \in 1..n |-> stack_get(tys[i], s2[Len(s2) - n + i])]
        s3 == PopN(s2, n)
    IN  [stack |-> IF glob THEN s3 ELSE PopN(s3, 1),
         error |-> \E i \in 1..n : got[i].error,
         values |-> [i \in 1..n |-> got[i].value]]

(***************************************************************************)
(* The state's accessors on a runtime holding t1 = {t2 = {}}: values are   *)
(* stored under a string key and an integer key, in the global table, in   *)
(* t1 and in t2.  written remembers, per slot, the host value the host     *)
(* stored there last.                                                      *)
(***************************************************************************)
ValueKeys == {Str(1), Num(1)}
T1 == Str(2)
T2 == Str(2)
Slot(path, key) == [path |-> path, key |-> key]
Slots ==
    {Slot(<<>>, Str(1)), Slot(<<>>, Num(1)), Slot(<<T1>>, Num(1)),
     Slot(<<T1, T2>>, Str(1))}
Nested == {s \in Slots : s.path # <<>>}

\* the pairs of values stored, and of types asked for, in one call
ValuePairs ==
    {<<HostValue("string", 1), HostValue("bool", 1)>>,
     <<HostValue("int", 7), HostValue("nil", 0)>>,
     <<HostValue("nil", 0), HostValue("int", 7)>>,
     <<HostValue("bool", 1), HostValue("string", 1)>>}
TypePairs ==
    {<<"string", "bool">>, <<"int", "nil">>, <<"nil", "int">>,
     <<"bool", "string">>}

Read(slot, ty, value, written) ==
    [slot |-> slot, ty |-> ty, value |-> value, written |-> written]

Accessed(op, error, reads, stk) ==
    [done |-> TRUE, kind |-> "field", op |-> op, error |-> error,
     reads |-> reads, pre |-> Len(stack), post |-> Len(stk),
     kept |-> stk = stack]

\* lua.set(key, value)
StateSet(key, hv) ==
    /\ \E r \in {table_set(stack, globals, heap, GlobalTable, <<key>>,
                            <<hv>>)} :
           /\ stack' = r.stack
           /\ globals' = r.globals
           /\ heap' = r.heap
           /\ lastres' = Accessed("set", FALSE, <<>>, r.stack)
    /\ registered' = [registered EXCEPT ![Slot(<<>>, key)] = hv]
    /\ UNCHANGED <<lastcall, host, shared, counters, lstate>>

\* lua.set(key1, value1, key2, value2)
StateSetSeveral(k1, hv1, k2, hv2) ==
    /\ \E r \in {table_set(stack, globals, heap, GlobalTable, <<k1, k2>>,
                            <<hv1, hv2>>)} :
           /\ stack' = r.stack
           /\ globals' = r.globals
           /\ heap' = r.heap
           /\ lastres' = Accessed("set several", FALSE, <<>>, r.stack)
    /\ registered' = [registered EXCEPT ![Slot(<<>>, k1)] = hv1,
                                        ![Slot(<<>>, k2)] = hv2]
    /\ UNCHANGED <<lastcall, host, shared, counters, lstate>>

\* lua.get<T>(key)
StateGet(ty, key) ==
    /\ \E r \in {table_get(stack, globals, heap, GlobalTable, <<ty>>,
                            <<key>>)} :
       LET s == Slot(<<>>, key)
       IN  /\ stack' = r.stack
           /\ lastres' = Accessed("get", r.error,
                                  <<Read(s, ty, r.values[1], registered[s])>>,
                                  r.stack)
    /\ UNCHANGED <<lastcall, globals, heap, registered, host, shared,
                   counters, lstate>>

\* lua.get<T1, T2>(key1, key2)
StateGetSeveral(ty1, k1, ty2, k2) ==
    /\ \E r \in {table_get(stack, globals, heap, GlobalTable, <<ty1, ty2>>,
                            <<k1, k2>>)} :
       LET s1 == Slot(<<>>, k1)
           s2 == Slot(<<>>, k2)
       IN  /\ stack' = r.stack
           /\ lastres' = Accessed("get several", r.error,
                                  <<Read(s1, ty1, r.values[1], registered[s1]),
                                    Read(s2, ty2, r.values[2], registered[s2])>>,
                                  r.stack)
    /\ UNCHANGED <<lastcall, globals, heap, registered, host, shared,
                   counters, lstate>>

\* lua.traverse_set(path..., key, value)
TraverseSet(path, key, hv) ==
    /\ \E r \in {traverse_set(stack, globals, heap, GlobalTable,
                               path \o <<key>>, hv)} :
           /\ stack' = r.stack
           /\ globals' = r.globals
           /\ heap' = r.heap
           /\ lastres' = Accessed("traverse_set", FALSE, <<>>, r.stack)
    /\ registered' = [registered EXCEPT ![Slot(path, key)] = hv]
    /\ UNCHANGED <<lastcall, host, shared, counters, lstate>>

\* lua.traverse_get<T>(path..., key)
TraverseGet(ty, path, key) ==
    /\ \E r \in {traverse_get(stack, globals, heap, GlobalTable, ty,
                               path \o <<key>>)} :
       LET s == Slot(path, key)
       IN  /\ stack' = r.stack
           /\ lastres' = Accessed("traverse_get", r.error,
                                  <<Read(s, ty, r.value, registered[s])>>,
                                  r.stack)
    /\ UNCHANGED <<lastcall, globals, heap, registered, host, shared,
                   counters, lstate>>

\* lua.script("t1 = {t2 = {}}") on a fresh state, the host's own slots below
InitField ==
    /\ stack \in {[i \in 1..h |-> Nil] : h \in {0, MaxPre}}
    /\ lastcall = NoCall
    /\ globals = (T1 :> Tbl(1))
    /\ heap = <<Table(T2 :> Tbl(2)), Table(NoFields)>>
    /\ registered = [s \in Slots |-> HostValue("nil", 0)]
    /\ host = <<>>
    /\ lastres = NoRes
    /\ IdleLifetime

NextField ==
    \/ \E key \in ValueKeys, hv \in HostValues : StateSet(key, hv)
    \/ \E hvs \in ValuePairs : StateSetSeveral(Str(1), hvs[1], Num(1), hvs[2])
    \/ \E ty \in HostTypes, key \in ValueKeys : StateGet(ty, key)
    \/ \E tys \in TypePairs : StateGetSeveral(tys[1], Str(1), tys[2], Num(1))
    \/ \E s \in Nested, hv \in HostValues : TraverseSet(s.path, s.key, hv)
    \/ \E ty \in HostTypes, s \in Nested : TraverseGet(ty, s.path, s.key)

SpecField == InitField /\ [][NextField]_vars

(***************************************************************************)
(* Table iteration (table_iterator.hpp).  begin() builds a table_iterator  *)
(* from a reference to the table, end() is a default-built one.  The       *)
(* iterator keeps the table and the current key on the stack while it      *)
(* lives.  host holds the iterator of the running loop, lastres what the   *)
(* loop has seen.  The runtime's traversal order is unspecified but fixed  *)
(* while the table is not assigned to: it is chosen when the loop begins.  *)
(***************************************************************************)
IterKeys == {Num(0), Num(1), Str(1)}
IterValues == {Num(1), Str(2)}
Arr == Tbl(1)
InvalidKeyToNext == Str(3)

Orders(S) ==
    {o \in [1..Cardinality(S) -> S] :
        \A i, j \in 1..Cardinality(S) : i # j => o[i] # o[j]}

\* lua_next(L, idx): pops the key on top and pushes the pair that follows it
\* in the table at idx, or nothing when the key was the last one; a key the
\* table does not hold raises "invalid key to 'next'"
lua_next(stk, hp, order, idx) ==
    LET key == Top(stk)
        f == hp[stk[idx].v].fields
        below == PopN(stk, 1)
        at == {i \in 1..Len(order) : order[i] = key}
    IN  IF key = Nil
        THEN IF Len(order) = 0
             THEN [more |-> FALSE, error |-> FALSE, stack |-> below]
             ELSE [more |-> TRUE, error |-> FALSE,
                   stack |-> below \o <<order[1], f[order[1]]>>]
        ELSE IF at = {}
        THEN [more |-> FALSE, error |-> TRUE,
              stack |-> stk \o <<InvalidKeyToNext>>]
        ELSE LET i == CHOOSE n \in at : TRUE
             IN  IF i = Len(order)
                 THEN [more |-> FALSE, error |-> FALSE, stack |-> below]
                 ELSE [more |-> TRUE, error |-> FALSE,
                       stack |-> below \o <<order[i + 1], f[order[i + 1]]>>]

\* std::pair<object, object> kvp of a new iterator: two empty objects
NoPair == [first |-> Nil, second |-> Nil]

\* table_iterator(): the end iterator, which refers to no table
table_iterator_default ==
    [idx |-> -1, tableidx |-> 0, valid |-> FALSE, kvp |-> NoPair]

\* table_iterator::operator==
IterEq(a, b) == a.idx = b.idx

\* table_iterator::operator++()
operator_inc(it, stk, hp, order) ==
    IF it.idx = -1 THEN [it |-> it, stack |-> stk, error |-> FALSE]
    ELSE LET r == lua_next(stk, hp, order, it.tableidx)
         IN  IF r.error THEN [it |-> it, stack |-> r.stack, error |-> TRUE]
             ELSE IF ~r.more
             THEN [it |-> [it EXCEPT !.idx = -1], stack |-> r.stack,
                   error |-> FALSE]
             ELSE [it |-> [it EXCEPT !.idx = @ + 1,
                                     !.kvp = [first |-> r.stack[Len(r.stack) - 1],
                                              second |-> Top(r.stack)]],
                   stack |-> PopN(r.stack, 1), error |-> FALSE]

\* table_iterator(ref_t x)
table_iterator(stk, hp, order, ref) ==
    LET s1 == stk \o <<ref>>
        it0 == [idx |-> 0, tableidx |-> Len(s1), valid |-> TRUE,
                kvp |-> NoPair]
        r == operator_inc(it0, s1 \o <<Nil>>, hp, order)
    IN  [it |-> [r.it EXCEPT !.idx = @ - 1], stack |-> r.stack]

\* stack::remove(L, index, count)
stack_remove(stk, index, count) ==
    SubSeq(stk, 1, index - 1) \o SubSeq(stk, index + count, Len(stk))

table_iterator_destroyKeepsTable(it, stk) == stk

\* ~table_iterator()
table_iterator_destroy(it, stk) ==
    IF it.valid THEN stack_remove(stk, it.tableidx, 1) ELSE stk

NoIter == [alive |-> FALSE]

PairsOf(f) == {[first |-> key, second |-> f[key]] : key \in DOMAIN f}

\* what a range-based for loop visits: the pair of an iterator that differs
\* from end()
Visit(seen, it) ==
    IF IterEq(it, table_iterator_default) THEN seen ELSE seen \o <<it.kvp>>

\* arr[key] = value in a script, while no loop runs
ScriptAssign(key, val) ==
    /\ ~host.alive
    /\ heap' = RawSet(Arr, key, val, globals, heap).heap
    /\ lastres' = NoRes
    /\ UNCHANGED <<stack, lastcall, globals, registered, host, shared,
                   counters, lstate>>

\* auto it = tbl.begin(), end = tbl.end()
Begin ==
    /\ ~host.alive
    /\ Len(stack) <= MaxPre
    /\ \E order \in Orders(DOMAIN heap[Arr.v].fields) :
       LET r == table_iterator(stack, heap, order, Arr)
       IN  /\ stack' = r.stack
           /\ host' = [alive |-> TRUE, it |-> r.it, order |-> order,
                       raised |-> FALSE]
           /\ lastres' = [done |-> TRUE, kind |-> "iter",
                          pre |-> Len(stack), post |-> Len(r.stack),
                          pairs |-> PairsOf(heap[Arr.v].fields),
                          incs |-> 0, seen |-> Visit(<<>>, r.it),
                          atend |-> IterEq(r.it, table_iterator_default),
                          raised |-> FALSE, destroyed |-> FALSE]
    /\ UNCHANGED <<lastcall, globals, heap, registered, shared, counters,
                   lstate>>

\* ++it
Increment ==
    /\ host.alive
    /\ ~host.raised
    /\ LET r == operator_inc(host.it, stack, heap, host.order)
           counted == IF lastres.atend THEN 0 ELSE 1
       IN  /\ stack' = r.stack
           /\ host' = [host EXCEPT !.it = r.it, !.raised = r.error]
           /\ lastres' = [lastres EXCEPT
                            !.post = Len(r.stack),
                            !.incs = @ + counted,
                            !.seen = IF r.error \/ lastres.atend THEN @
                                     ELSE Visit(@, r.it),
                            !.atend = IterEq(r.it, table_iterator_default),
                            !.raised = r.error]
    /\ UNCHANGED <<lastcall, globals, heap, registered, shared, counters,
                   lstate>>

\* the iterators go out of scope
Destroy ==
    /\ host.alive
    /\ LET stk == table_iterator_destroy(table_iterator_default,
                      table_iterator_destroy(host.it, stack))
       IN  /\ stack' = stk
           /\ lastres' = [lastres EXCEPT !.post = Len(stk),
                                         !.destroyed = TRUE]
    /\ host' = NoIter
    /\ UNCHANGED <<lastcall, globals, heap, registered, shared, counters,
                   lstate>>

\* sol::state lua; lua.script("arr = {}"); sol::table tbl = lua["arr"]
InitIter ==
    /\ stack \in {[i \in 1..h |-> Nil] : h \in 0..MaxPre}
    /\ lastcall = NoCall
    /\ globals = (Str(1) :> Arr)
    /\ heap = <<Table(NoFields)>>
    /\ registered = <<>>
    /\ host = NoIter
    /\ lastres = NoRes
    /\ IdleLifetime

NextIter ==
    \/ \E key \in IterKeys, val \in IterValues \cup {Nil} :
          ScriptAssign(key, val)
    \/ Begin
    \/ Increment
    \/ Destroy

SpecIter == InitIter /\ [][NextIter]_vars

(***************************************************************************)
(* Running code (state_view.hpp).  script and script_file load and run a   *)
(* chunk in protected mode and re-raise its failure with lua_error; no     *)
(* protected call encloses them, so the runtime hands the error to the     *)
(* panic handler and aborts the process if that handler returns.  host     *)
(* holds the build (exceptions compiled in or out) and the panic handler   *)
(* installed, lstate becomes "aborted" when the process has been ended.    *)
(***************************************************************************)
DefaultPanicMessage == Str(9)
LUA_OK == "LUA_OK"
ScriptKinds == {"script", "script_file"}
ErrorValues == {Str(4), Num(5), Nil, Tbl(1)}
PanicHandlers == {"atpanic", "none"}

\* the text the runtime converts a number to
NumberText(n) == Str(100 + n)

\* the values a chunk that succeeds returns: "x = 1", "return 1",
\* "return 1, 2"
ChunkResults == {<<>>, <<Num(1)>>, <<Num(1), Num(2)>>}

\* what loading and running a chunk can end with: success with the values
\* the chunk returns, a syntax error (a message), a runtime error (any
\* value) or, for a file, a failure to open it (a message)
ScriptOutcomes(kind) ==
    {[status |-> LUA_OK, value |-> Nil, results |-> rs] : rs \in ChunkResults}
    \cup {[status |-> "LUA_ERRSYNTAX", value |-> Str(4), results |-> <<>>]}
    \cup {[status |-> "LUA_ERRRUN", value |-> v, results |-> <<>>] :
             v \in ErrorValues}
    \cup (IF kind = "script_file"
          THEN {[status |-> "LUA_ERRFILE", value |-> Str(5),
                 results |-> <<>>]}
          ELSE {})

\* luaL_dostring(L, code) and luaL_dofile(L, filename), that is
\* luaL_loadstring(L, s) || lua_pcall(L, 0, LUA_MULTRET, 0): a chunk that
\* succeeds leaves every value it returns on the stack, a failure leaves the
\* error value and reports its status
luaL_dostring(stk, outcome) ==
    IF outcome.status = LUA_OK
    THEN [status |-> LUA_OK, stack |-> stk \o outcome.results]
    ELSE [status |-> outcome.status, stack |-> stk \o <<outcome.value>>]

\* lua_tostring(L, -1): a string as it is, a number converted in its slot,
\* NULL for any other value
lua_tostring(stk) ==
    LET v == Top(stk)
    IN  IF v.k = "string" THEN [null |-> FALSE, str |-> v, stack |-> stk]
        ELSE IF v.k = "number"
        THEN [null |-> FALSE, str |-> NumberText(v.v),
              stack |-> PopN(stk, 1) \o <<NumberText(v.v)>>]
        ELSE [null |-> TRUE, str |-> Nil, stack |-> stk]

\* sol::error(err)
error(err) == [type |-> "error", what |-> err]

atpanicNeverThrows(exceptions, stk) ==
    [thrown |-> FALSE, ret |-> -1, stack |-> stk]

\* detail::atpanic(L)
atpanic(exceptions, stk) ==
    IF ~exceptions THEN [thrown |-> FALSE, ret |-> -1, stack |-> stk]
    ELSE LET message == lua_tostring(stk)
             err == IF ~message.null THEN message.str
                    ELSE DefaultPanicMessage
         IN  [thrown |-> TRUE, exception |-> error(err),
              stack |-> message.stack]

\* lua_error(L) outside any protected call: the panic handler runs, and the
\* runtime aborts the process when there is none or when it returns
lua_error(panic, exceptions, stk) ==
    IF panic = "none"
    THEN [end |-> "abort", panicked |-> FALSE, stack |-> stk]
    ELSE LET p == atpanic(exceptions, stk)
         IN  IF p.thrown
             THEN [end |-> "throw", panicked |-> TRUE,
                   exception |-> p.exception, stack |-> p.stack]
             ELSE [end |-> "abort", panicked |-> TRUE, ret |-> p.ret,
                   stack |-> p.stack]

\* state_view::script(code) and state_view::script_file(filename)
script(panic, exceptions, stk, outcome) ==
    LET r == luaL_dostring(stk, outcome)
    IN  IF r.status # LUA_OK THEN lua_error(panic, exceptions, r.stack)
        ELSE [end |-> "return", panicked |-> FALSE, stack |-> r.stack]

\* lua.script(code) or lua.script_file(filename) called by the host
RunScript(kind, outcome) ==
    /\ lstate = "open"
    /\ Len(stack) <= MaxPre
    /\ LET r == script(host.panic, host.exceptions, stack, outcome)
       IN  /\ stack' = r.stack
           /\ lstate' = IF r.end = "abort" THEN "aborted" ELSE lstate
           /\ lastres' = [done |-> TRUE, kind |-> kind, outcome |-> outcome,
                          exceptions |-> host.exceptions,
                          panic |-> host.panic, ran |-> r]
    /\ UNCHANGED <<lastcall, globals, heap, registered, host, shared,
                   counters>>

\* state_view::set_panic(panic)
SetPanic(panic) ==
    /\ lstate = "open"
    /\ host' = [host EXCEPT !.panic = panic]
    /\ UNCHANGED <<stack, lastcall, globals, heap, registered, shared,
                   counters, lstate, lastres>>

\* the host, having caught the error, drops a slot of the stack
DropSlot ==
    /\ lstate = "open"
    /\ Pop

\* sol::state lua, in a build with exceptions or one with SOL_NO_EXCEPTIONS
InitScript ==
    /\ stack = <<>>
    /\ lastcall = NoCall
    /\ globals = <<>>
    /\ heap = <<>>
    /\ registered = <<>>
    /\ host \in {[exceptions |-> e, panic |-> "atpanic"] : e \in BOOLEAN}
    /\ lastres = NoRes
    /\ IdleLifetime

NextScript ==
    \/ \E kind \in ScriptKinds :
          \E outcome \in ScriptOutcomes(kind) : RunScript(kind, outcome)
    \/ \E panic \in PanicHandlers : SetPanic(panic)
    \/ DropSlot

SpecScript == InitScript /\ [][NextScript]_vars

(***************************************************************************)
(* Secondary execution contexts (thread.hpp).  A thread of the runtime is  *)
(* a record of the heap with its own status and stack; a sol::thread is a  *)
(* reference to it, and host holds the references the host owns.           *)
(***************************************************************************)
Thr(i) == [k |-> "thread", v |-> i]
ThreadStatuses == {"normal", "yielded", "runtime"}
Thread(st, stk) == [type |-> "thread", status |-> st, stack |-> stk]

\* lua_tothread(L, -1)
lua_tothread(stk) == Top(stk).v

\* lua_status(lthread)
lua_status(hp, lthread) == hp[lthread].status

\* lua_gettop(lthread)
lua_gettop(hp, lthread) == Len(hp[lthread].stack)

\* thread::thread_state(): the referenced thread is pushed, read and popped
thread_state(stk, ref) ==
    LET pp == push_pop(FALSE, stk, Thr(ref))
    IN  [lthread |-> lua_tothread(pp), stack |-> PopN(pp, 1)]

thread_statusKillsEmptyThread(stk, hp, ref) ==
    LET ts == thread_state(stk, ref)
        lstat == lua_status(hp, ts.lthread)
    IN  IF lstat # "normal" /\ lua_gettop(hp, ts.lthread) = 0
        THEN [status |-> "dead", stack |-> ts.stack,
              heap |-> [hp EXCEPT ![ts.lthread] = Thread("normal", <<>>)]]
        ELSE [status |-> lstat, stack |-> ts.stack, heap |-> hp]

\* thread::status()
thread_status(stk, hp, ref) ==
    LET ts == thread_state(stk, ref)
        lstat == lua_status(hp, ts.lthread)
    IN  IF lstat # "normal" /\ lua_gettop(hp, ts.lthread) = 0
        THEN [status |-> "dead", stack |-> ts.stack, heap |-> hp]
        ELSE [status |-> lstat, stack |-> ts.stack, heap |-> hp]

\* lua_newthread(L): a new thread, pushed
lua_newthread(stk, hp) ==
    [stack |-> stk \o <<Thr(Len(hp) + 1)>>,
     heap |-> hp \o <<Thread("normal", <<>>)>>]

\* reference(L, -1): a reference to the value on top, which stays
reference(stk) == [ref |-> Top(stk).v, stack |-> stk]

\* thread::create(L)
thread_create(stk, hp) ==
    LET nt == lua_newthread(stk, hp)
        result == reference(nt.stack)
    IN  [result |-> result.ref, stack |-> PopN(result.stack, 1),
         heap |-> nt.heap]

Queried(op, ref, result, stk, hp, hp2) ==
    [done |-> TRUE, kind |-> "thread", op |-> op, result |-> result,
     pre |-> Len(stack), post |-> Len(stk), kept |-> stk = stack,
     before |-> IF ref = 0 THEN hp ELSE <<hp[ref]>>,
     after |-> IF ref = 0 THEN SubSeq(hp2, 1, Len(hp)) ELSE <<hp2[ref]>>]

\* sol::thread::create(lua)
ThreadCreate ==
    /\ Len(heap) < MaxRecords
    /\ LET r == thread_create(stack, heap)
       IN  /\ stack' = r.stack
           /\ heap' = r.heap
           /\ host' = host \o <<r.result>>
           /\ lastres' = Queried("create", 0, Thread("normal", <<>>),
                                 r.stack, heap, r.heap)
    /\ UNCHANGED <<lastcall, globals, registered, shared, counters, lstate>>

\* th.thread_state()
ThreadState(i) ==
    /\ i \in DOMAIN host
    /\ LET r == thread_state(stack, host[i])
       IN  /\ stack' = r.stack
           /\ lastres' = Queried("thread_state", host[i],
                                 heap[r.lthread], r.stack, heap, heap)
    /\ UNCHANGED <<lastcall, globals, heap, registered, host, shared,
                   counters, lstate>>

\* th.status()
ThreadStatus(i) ==
    /\ i \in DOMAIN host
    /\ LET r == thread_status(stack, heap, host[i])
       IN  /\ stack' = r.stack
           /\ heap' = r.heap
           /\ lastres' = Queried("status", host[i],
                                 Thread(r.status, <<>>), r.stack, heap,
                                 r.heap)
    /\ UNCHANGED <<lastcall, globals, registered, host, shared, counters,
                   lstate>>

\* the thread is driven by its one call site: it yields, finishes or fails,
\* with h values left on its own stack (an error leaves its error value)
ThreadRun(i, st, h) ==
    /\ i \in DOMAIN host
    /\ st = "runtime" => h > 0
    /\ heap' = [heap EXCEPT ![host[i]] = Thread(st, [n \in 1..h |-> Nil])]
    /\ lastres' = NoRes
    /\ UNCHANGED <<stack, lastcall, globals, registered, host, shared,
                   counters, lstate>>

InitThread ==
    /\ stack = <<>>
    /\ lastcall = NoCall
    /\ globals = <<>>
    /\ heap = <<>>
    /\ registered = <<>>
    /\ host = <<>>
    /\ lastres = NoRes
    /\ IdleLifetime

NextThread ==
    \/ ThreadCreate
    \/ \E i \in 1..MaxRecords : ThreadState(i)
    \/ \E i \in 1..MaxRecords : ThreadStatus(i)
    \/ \E i \in 1..MaxRecords, st \in ThreadStatuses, h \in 0..1 :
          ThreadRun(i, st, h)
    \/ Push(Nil)
    \/ Pop

SpecThread == InitThread /\ [][NextThread]_vars

(***************************************************************************)
(* The three ownership modes side by side: objects bound by value, by      *)
(* address and through the shared handle, collected while the runtime is   *)
(* open or finalized when it is closed.                                    *)
(***************************************************************************)
InitRecord ==
    /\ stack = <<>>
    /\ lastcall = NoCall
    /\ globals = <<>>
    /\ heap = <<>>
    /\ registered = <<>>
    /\ host = [a \in HostObjs |-> [alive |-> TRUE, boop |-> 0]]
    /\ shared = [count |-> 1, alive |-> TRUE, hosthandles |-> 1]
    /\ counters = [created |-> NHost, destroyed |-> 0]
    /\ lstate = "open"
    /\ lastres = NoRes

NextRecord ==
    \/ \E name \in Names, how \in Hows, a \in HostObjs :
           SetObject(name, how, a)
    \/ \E name \in Names : SetShared(name)
    \/ \E name \in Names : ScriptNew(name)
    \/ \E name \in Names : SetNil(name)
    \/ \E p \in 1..Len(heap) : Collect(p)
    \/ Close
    \/ \E a \in HostObjs : HostDestroy(a)
    \/ HostReleaseShared

SpecRecord == InitRecord /\ [][NextRecord]_vars

(***************************************************************************)
(* Call-state objects and the function values that carry them.  Callables  *)
(* are bound under two names; binding over a name or clearing it drops the *)
(* function value the name held, and the collector later reclaims each     *)
(* dropped value, running the cleanup of its userdata.  registered holds   *)
(* the dropped values not yet reclaimed, counters the call-state objects   *)
(* allocated and destroyed.                                                *)
(***************************************************************************)
StateNames == {"fun", "gun"}

StateCallables ==
    {free_function(1), stateful_lambda(1), std_function(1),
     memfx_with("lvalue", 1)}

\* the call-state object a function value carries (0: none)
CallStateOf(v) ==
    IF v.k = "cclosure" /\ v.v.fn = "function_detail::call"
    THEN v.v.up[1].v.ptr ELSE 0

\* function_detail::free_function_cleanup: the __gc of the userdata deletes
\* the call-state object it points to
function_gc(hp, p) ==
    [heap |-> [hp EXCEPT ![p] = Freed], twice |-> hp[p] = Freed]

\* the function value a name held is dropped
Dropped(old) == IF IsClosure(old) THEN registered \o <<old>> ELSE registered

\* lua.set_function<Sig...>(name, fx)
BindState(name, sig, c) ==
    /\ Len(registered) < MaxRecords
    /\ c.kind = "member_obj" => host[c.from].alive
    /\ \E p \in {push(deduce(sig, c), stack, heap, c, host)} :
       LET g == lua_setglobal(p.stack, globals, name)
       IN  /\ Len(p.heap) <= MaxRecords
           /\ stack' = g.stack
           /\ globals' = g.globals
           /\ heap' = p.heap
           /\ counters' = [counters EXCEPT
                              !.created = @ + Len(p.heap) - Len(heap)]
    /\ registered' = Dropped(GetGlobal(globals, name))
    /\ lastres' = NoRes
    /\ UNCHANGED <<lastcall, host, shared, lstate>>

\* lua.set_function(name, sol::overload(...))
BindOverloadState(name, set) ==
    /\ Len(registered) < MaxRecords
    /\ \E p \in {overload_set_push(stack, heap, set)} :
       LET g == lua_setglobal(p.stack, globals, name)
       IN  /\ Len(p.heap) <= MaxRecords
           /\ stack' = g.stack
           /\ globals' = g.globals
           /\ heap' = p.heap
           /\ counters' = [counters EXCEPT
                              !.created = @ + Len(p.heap) - Len(heap)]
    /\ registered' = Dropped(GetGlobal(globals, name))
    /\ lastres' = NoRes
    /\ UNCHANGED <<lastcall, host, shared, lstate>>

\* lua.set(name, sol::nil)
Unbind(name) ==
    /\ Len(registered) < MaxRecords
    /\ IsClosure(GetGlobal(globals, name))
    /\ LET g == lua_setglobal(stack \o <<Nil>>, globals, name)
       IN  /\ stack' = g.stack
           /\ globals' = g.globals
    /\ registered' = Dropped(GetGlobal(globals, name))
    /\ lastres' = NoRes
    /\ UNCHANGED <<lastcall, heap, host, shared, counters, lstate>>

\* the collector reclaims one dropped function value
Reclaim(i) ==
    /\ i \in 1..Len(registered)
    /\ LET p == CallStateOf(registered[i])
       IN  IF p = 0
           THEN /\ lastres' = NoRes
                /\ UNCHANGED <<heap, counters>>
           ELSE \E r \in {function_gc(heap, p)} :
                /\ heap' = r.heap
                /\ counters' = [counters EXCEPT !.destroyed = @ + 1]
                /\ lastres' = [done |-> TRUE, kind |-> "gc", ptr |-> p,
                               twice |-> r.twice]
    /\ registered' = [n \in 1..(Len(registered) - 1) |->
                         IF n < i THEN registered[n] ELSE registered[n + 1]]
    /\ UNCHANGED <<stack, lastcall, globals, host, shared, lstate>>

\* lua.script("fun()")
CallName(name) ==
    /\ IsClosure(GetGlobal(globals, name))
    /\ lastres' = [done |-> TRUE, kind |-> "call", name |-> name,
                   target |-> trampoline(GetGlobal(globals, name), heap),
                   bound |-> GetGlobal(globals, name)]
    /\ UNCHANGED <<stack, lastcall, globals, heap, registered, host, shared,
                   counters, lstate>>

InitCallState ==
    /\ stack = <<>>
    /\ lastcall = NoCall
    /\ globals = <<>>
    /\ heap = <<>>
    /\ registered = <<>>
    /\ host = [a \in HostObjs |-> [alive |-> TRUE, boop |-> 0]]
    /\ lastres = NoRes
    /\ IdleLifetime

NextCallState ==
    \/ \E name \in StateNames, c \in StateCallables :
          \E sig \in SigsOf(c) : BindState(name, sig, c)
    \/ \E name \in StateNames, set \in PushSets : BindOverloadState(name, set)
    \/ \E name \in StateNames : Unbind(name)
    \/ \E i \in 1..MaxRecords : Reclaim(i)
    \/ \E name \in StateNames : CallName(name)

SpecCallState == InitCallState /\ [][NextCallState]_vars

(***************************************************************************)
(* Copies of a table_iterator.  The class declares no copy constructor, so *)
(* a copy holds the same tableidx and a valid reference of its own, and    *)
(* its destructor calls stack::remove like the original's.  operator++(int)*)
(* copies *this into saved and returns it by value: the caller's temporary *)
(* is saved itself when the build elides the copy of the return value, a   *)
(* second copy when it does not.  host.it is the original.                 *)
(***************************************************************************)
\* the slot the original iterates over still holds the table
SlotIntact ==
    /\ host.alive
    /\ host.it.tableidx \in 1..Len(stack)
    /\ stack[host.it.tableidx] = Arr

\* stack::remove(L, index, 1) by a destructor: lua_remove on an index above
\* the top is undefined: a build with api checks stops there and leaves the
\* stack alone, one without them drops the top slot
stack_removeOutcomes(stk, index) ==
    IF index \in 1..Len(stk) THEN {stack_remove(stk, index, 1)}
    ELSE {stk} \cup (IF stk = <<>> THEN {} ELSE {PopN(stk, 1)})

\* ++it while no copy has been destroyed
IncrementOriginal == SlotIntact /\ Increment

\* the iterators go out of scope while no copy has been destroyed
DestroyOriginal == SlotIntact /\ Destroy

\* it++ as a full expression: saved = *this, operator++ on the original, and
\* the destructors of the copies.  When operator++ raises, the return value
\* is never built and the unwinding destroys saved alone.
PostIncrement(elide) ==
    /\ SlotIntact
    /\ ~host.raised
    /\ \E r \in {operator_inc(host.it, stack, heap, host.order)} :
       \E s1 \in stack_removeOutcomes(r.stack, host.it.tableidx) :
       \E s2 \in IF elide \/ r.error THEN {s1}
                 ELSE stack_removeOutcomes(s1, host.it.tableidx) :
           /\ stack' = s2
           /\ host' = [host EXCEPT !.it = r.it, !.raised = r.error]
           /\ lastres' = [done |-> TRUE, kind |-> "copy",
                          pre |-> lastres.pre, post |-> Len(s2),
                          copies |-> IF elide \/ r.error THEN 1 ELSE 2,
                          removed |-> IF elide \/ r.error THEN 1 ELSE 2,
                          raised |-> r.error,
                          original |-> TRUE,
                          intact |-> /\ host.it.tableidx \in 1..Len(s2)
                                     /\ s2[host.it.tableidx] = Arr]
    /\ UNCHANGED <<lastcall, globals, heap, registered, shared, counters,
                   lstate>>

\* the original goes out of scope after a copy was destroyed
DestroyAfterCopy ==
    /\ host.alive
    /\ lastres.done /\ lastres.kind = "copy"
    /\ \E s \in stack_removeOutcomes(stack, host.it.tableidx) :
           /\ stack' = s
           /\ lastres' = [lastres EXCEPT !.post = Len(s),
                                         !.removed = @ + 1,
                                         !.original = FALSE,
                                         !.intact = FALSE]
    /\ host' = NoIter
    /\ UNCHANGED <<lastcall, globals, heap, registered, shared, counters,
                   lstate>>

\* ++it on the original after a copy was destroyed: lua_next on a slot that
\* holds no table is undefined.  A build with api checks stops the program;
\* one without them may find nothing to traverse, pop the key and report
\* the end.
DanglingOutcomes == {"stopped", "exhausted"}

IncrementAfterCopy(outcome) ==
    /\ host.alive
    /\ ~host.raised
    /\ lastres.done /\ lastres.kind = "copy"
    /\ host.it.idx # -1
    /\ IF outcome = "stopped"
       THEN /\ stack' = stack
            /\ host' = NoIter
            /\ lastres' = [lastres EXCEPT !.original = FALSE]
       ELSE /\ stack' = IF stack = <<>> THEN stack ELSE PopN(stack, 1)
            /\ host' = [host EXCEPT !.it = [host.it EXCEPT !.idx = -1]]
            /\ lastres' = [lastres EXCEPT !.post = Len(stack')]
    /\ UNCHANGED <<lastcall, globals, heap, registered, shared, counters,
                   lstate>>

NextIterCopy ==
    \/ \E key \in IterKeys, val \in IterValues \cup {Nil} :
          ScriptAssign(key, val)
    \/ Begin
    \/ IncrementOriginal
    \/ DestroyOriginal
    \/ \E elide \in BOOLEAN : PostIncrement(elide)
    \/ DestroyAfterCopy
    \/ \E outcome \in DanglingOutcomes : IncrementAfterCopy(outcome)

SpecIterCopy == InitIter /\ [][NextIterCopy]_vars

(***************************************************************************)
(* The field_getter of a key that is itself a pair or a tuple of keys      *)
(* (stack_field.hpp:41-69), on a runtime holding                           *)
(*   outer = {[s1] = inner, [1] = 5}, inner = {[s1] = leaf, [1] = 6},      *)
(*   leaf = {[s1] = 7, [1] = 8}, and the global s1 = inner.                *)
(* The host arranges tables and other values on the stack and calls a      *)
(* getter with the index of a table.                                       *)
(***************************************************************************)
MaxKeys == 3     \* most keys in one tuple

Outer == Tbl(1)
Inner == Tbl(2)
Leaf == Tbl(3)
AttemptToIndex == Str(4)

KeyLists == UNION {[1..n -> ValueKeys] : n \in 1..MaxKeys}
TableIndexes == ((0 - MaxPre)..MaxPre) \ {0}

\* get_field<b>(L, key, tableindex): reading a field of a value that is no
\* table raises "attempt to index"
get_field_at(stk, g, hp, glob, key, tableindex) ==
    IF (glob /\ IsCStr(key)) \/ stk[lua_absindex(stk, tableindex)].k = "table"
    THEN [error |-> FALSE,
          stack |-> field_getter(stk, g, hp, glob, key, tableindex)]
    ELSE [error |-> TRUE, stack |-> stk \o <<AttemptToIndex>>]

\* reference saved(L, -1); lua_pop(L, n); saved.push()
keep_top(stk, n) == PopN(stk, n) \o <<Top(stk)>>

\* field_getter<std::pair<A, B>, b, C>::get(L, keys, tableindex)
field_getter_pair(stk, g, hp, glob, keys, tableindex) ==
    LET t == lua_absindex(stk, tableindex)
        r1 == get_field_at(stk, g, hp, glob, keys[1], t)
    IN  IF r1.error THEN r1
        ELSE LET r2 == get_field_at(r1.stack, g, hp, FALSE, keys[2], t + 1)
             IN  IF r2.error THEN r2
                 ELSE [error |-> FALSE, stack |-> keep_top(r2.stack, 2)]

\* field_getter<std::tuple<Args...>, b, C>::apply: the pack expansion calls
\* get_field<I < 1 && b>(L, get<I>(keys), tableindex) for I = 0, 1, ...
RECURSIVE tuple_lookups(_, _, _, _, _, _, _)
tuple_lookups(stk, g, hp, glob, keys, I, t) ==
    IF I >= Len(keys) THEN [error |-> FALSE, stack |-> stk]
    ELSE LET r == get_field_at(stk, g, hp, I < 1 /\ glob, keys[I + 1], t)
         IN  IF r.error THEN r
             ELSE tuple_lookups(r.stack, g, hp, glob, keys, I + 1, t)

\* field_getter<std::tuple<Args...>, b, C>::get(L, keys, tableindex)
field_getter_tuple(stk, g, hp, glob, keys, tableindex) ==
    LET r == tuple_lookups(stk, g, hp, glob, keys, 0,
                           lua_absindex(stk, tableindex))
    IN  IF r.error THEN r
        ELSE [error |-> FALSE, stack |-> keep_top(r.stack, Len(keys))]

\* root[k1][k2]...[kn] as a script evaluates it: a step from a value that is
\* no table raises an error
RECURSIVE Chained(_, _, _, _)
Chained(root, keys, g, hp) ==
    IF Len(keys) = 0 THEN [error |-> FALSE, value |-> root]
    ELSE IF root.k # "table" THEN [error |-> TRUE, value |-> Nil]
    ELSE Chained(RawGet(root, keys[1], g, hp), Tail(keys), g, hp)

\* the table the first key is read from
RootOf(stk, glob, keys, tableindex) ==
    IF glob /\ IsCStr(keys[1]) THEN GlobalTable
    ELSE stk[lua_absindex(stk, tableindex)]

Looked(op, glob, keys, tableindex, r) ==
    [done |-> TRUE, kind |-> "keys", op |-> op, glob |-> glob,
     keys |-> keys, tableindex |-> tableindex, ontop |-> Top(stack).k = "table"
         /\ lua_absindex(stack, tableindex) = Len(stack),
     pre |-> Len(stack), error |-> r.error,
     post |-> Len(r.stack),
     kept |-> SubSeq(r.stack, 1, Len(stack)) = stack,
     top |-> Top(r.stack),
     chained |-> Chained(RootOf(stack, glob, keys, tableindex), keys,
                         globals, heap)]

\* what the host puts on the stack before it calls a getter; it pops a
\* getter's result before it calls the next
Layout == {Outer, Num(9)}

ValidTable(tableindex) ==
    /\ \A i \in 1..Len(stack) : stack[i] \in Layout
    /\ lua_absindex(stack, tableindex) \in 1..Len(stack)
    /\ stack[lua_absindex(stack, tableindex)].k = "table"

\* stack::get_field<b>(L, std::make_pair(k1, k2), tableindex); a raised
\* error unwinds to the caller's protected call, which drops what was pushed
PairGet(glob, keys, tableindex) ==
    /\ Len(stack) <= MaxPre
    /\ Len(keys) = 2
    /\ ValidTable(tableindex)
    /\ \E r \in {field_getter_pair(stack, globals, heap, glob, keys,
                                   tableindex)} :
           /\ stack' = IF r.error THEN stack ELSE r.stack
           /\ lastres' = Looked("pair", glob, keys, tableindex, r)
    /\ UNCHANGED <<lastcall, globals, heap, registered, host, shared,
                   counters, lstate>>

\* stack::get_field<b>(L, std::make_tuple(k1, ..., kn), tableindex)
TupleGet(glob, keys, tableindex) ==
    /\ Len(stack) <= MaxPre
    /\ ValidTable(tableindex)
    /\ \E r \in {field_getter_tuple(stack, globals, heap, glob, keys,
                                    tableindex)} :
           /\ stack' = IF r.error THEN stack ELSE r.stack
           /\ lastres' = Looked("tuple", glob, keys, tableindex, r)
    /\ UNCHANGED <<lastcall, globals, heap, registered, host, shared,
                   counters, lstate>>

\* the host pushes a value for the next lookup (stack::push)
Arrange(v) ==
    /\ Len(stack) < MaxPre
    /\ \A i \in 1..Len(stack) : stack[i] \in Layout
    /\ stack' = stack \o <<v>>
    /\ lastres' = NoRes
    /\ UNCHANGED <<lastcall, globals, heap, registered, host, shared,
                   counters, lstate>>

\* the host pops the top slot (lua_pop(L, 1))
Drop ==
    /\ Len(stack) > 0
    /\ stack' = PopN(stack, 1)
    /\ lastres' = NoRes
    /\ UNCHANGED <<lastcall, globals, heap, registered, host, shared,
                   counters, lstate>>

InitKeys ==
    /\ stack = <<>>
    /\ lastcall = NoCall
    /\ globals = (Str(1) :> Inner)
    /\ heap = <<Table(Str(1) :> Inner @@ Num(1) :> Num(5)),
                Table(Str(1) :> Leaf @@ Num(1) :> Num(6)),
                Table(Str(1) :> Num(7) @@ Num(1) :> Num(8))>>
    /\ registered = <<>>
    /\ host = <<>>
    /\ lastres = NoRes
    /\ IdleLifetime

NextKeys ==
    \/ \E v \in Layout : Arrange(v)
    \/ Drop
    \/ \E glob \in BOOLEAN, keys \in KeyLists, ti \in TableIndexes :
          PairGet(glob, keys, ti)
    \/ \E glob \in BOOLEAN, keys \in KeyLists, ti \in TableIndexes :
          TupleGet(glob, keys, ti)

SpecKeys == InitKeys /\ [][NextKeys]_vars

(***************************************************************************)
(* Setting up the global table (state_view.hpp:74-138, 202-229, 288-300).  *)
(* open_libraries loads standard libraries through luaL_requiref, which    *)
(* keeps the loaded modules in the registry table _LOADED (heap[1] here);  *)
(* create_table and new_usertype / set_usertype store a new table under a  *)
(* global name.                                                            *)
(***************************************************************************)
MaxTables == 4   \* most tables on the heap

Libs == {"base", "os"}
LibLists == {<<>>, <<"base">>, <<"os">>, <<"base", "os">>}
Loaded == Tbl(1)
ModName(lib) == IF lib = "base" THEN Str(20) ELSE Str(21)
G_ == Str(22)
PrintName == Str(23)
TimeName == Str(24)
NewName == Str(25)
TableNames == {Str(30), ModName("os")}
UsertypeNames == {Str(31)}
Woof == Str(32)
Bark == Str(33)
TableFields ==
    {NoFields, Woof :> Bark @@ Num(1) :> Num(2) @@ Num(3) :> Num(4)}

\* luaopen_base(L) stores the base functions in the global table, sets
\* _G._G to it and returns it; luaopen_os(L) returns a new table of the os
\* functions
luaopen(lib, stk, g, hp) ==
    IF lib = "base"
    THEN [stack |-> stk \o <<GlobalTable>>,
          globals |-> Assign(Assign(g, PrintName, Fn(0)), G_, GlobalTable),
          heap |-> hp]
    ELSE [stack |-> stk \o <<Tbl(Len(hp) + 1)>>, globals |-> g,
          heap |-> Append(hp, Table(TimeName :> Fn(1)))]

\* lua_toboolean(L, idx)
lua_toboolean(v) == ~(v = Nil \/ v = Bool(0))

\* luaL_requiref(L, modname, openf, 1): the module is opened unless _LOADED
\* holds it, stored in _LOADED and in the global modname, and left on top
luaL_requiref(stk, g, hp, modname, lib) ==
    LET found == RawGet(Loaded, modname, g, hp)
    IN  IF lua_toboolean(found)
        THEN [stack |-> stk \o <<found>>,
              globals |-> Assign(g, modname, found), heap |-> hp]
        ELSE LET o == luaopen(lib, stk, g, hp)
                 module == Top(o.stack)
                 s == RawSet(Loaded, modname, module, o.globals, o.heap)
             IN  [stack |-> o.stack,
                  globals |-> Assign(s.globals, modname, module),
                  heap |-> s.heap]

\* one case of the switch: luaL_requiref(L, name, luaopen_x, 1); lua_pop(L, 1)
open_library(stk, g, hp, modname, lib) ==
    LET r == luaL_requiref(stk, g, hp, modname, lib)
    IN  [stack |-> PopN(r.stack, 1), globals |-> r.globals, heap |-> r.heap]

\* luaL_openlibs(L): every standard library, the base library under "_G"
luaL_openlibs(stk, g, hp) ==
    LET b == open_library(stk, g, hp, G_, "base")
    IN  open_library(b.stack, b.globals, b.heap, ModName("os"), "os")

\* the loop over { lib::count, args... }; lib::count opens nothing
RECURSIVE open_each(_, _, _, _)
open_each(stk, g, hp, libraries) ==
    IF libraries = <<>> THEN [stack |-> stk, globals |-> g, heap |-> hp]
    ELSE LET library == Head(libraries)
             r == IF library = "count"
                  THEN [stack |-> stk, globals |-> g, heap |-> hp]
                  ELSE open_library(stk, g, hp, ModName(library), library)
         IN  open_each(r.stack, r.globals, r.heap, Tail(libraries))

\* state_view::open_libraries(args...)
open_libraries(stk, g, hp, args) ==
    IF Len(args) = 0 THEN luaL_openlibs(stk, g, hp)
    ELSE open_each(stk, g, hp, <<"count">> \o args)

\* state_view::create_table(narr, nrec, key, value, ...) and
\* create_table_with(key, value, ...), member and static: global_table's
\* create makes a new table holding the fields and returns it; no name
\* refers to it
create_table_with(stk, g, hp, fields) ==
    LET hp1 == Append(hp, Table(fields))
    IN  [stack |-> stk, globals |-> g, heap |-> hp1,
         value |-> HostValue("table", Len(hp1))]

\* state_view::create_table(name, narr, nrec, key, value, ...):
\* global.create(name, ...) makes a new table holding the fields, stores it
\* under the name and returns it
create_table(stk, g, hp, name, fields) ==
    LET hp1 == Append(hp, Table(fields))
        x == HostValue("table", Len(hp1))
        r == table_set(stk, g, hp1, GlobalTable, <<name>>, <<x>>)
    IN  [stack |-> r.stack, globals |-> r.globals, heap |-> r.heap,
         value |-> x]

\* state_view::new_usertype<Class>(name, ...) and set_usertype(name, user):
\* global.set_usertype stores the table of the usertype, which holds its
\* constructor, under the name
set_usertype(stk, g, hp, name) ==
    create_table(stk, g, hp, name, NewName :> Fn(1))

\* lua.open_libraries(sol::lib::base, sol::lib::os)
OpenLibraries(args) ==
    /\ Len(heap) < MaxTables
    /\ \E r \in {open_libraries(stack, globals, heap, args)} :
           /\ stack' = r.stack
           /\ globals' = r.globals
           /\ heap' = r.heap
           /\ lastres' = Accessed("open_libraries", FALSE, <<>>, r.stack)
    /\ UNCHANGED <<lastcall, registered, host, shared, counters, lstate>>

\* auto bob_table = lua.create_table("bob");
\* lua.create_table("testtable", 0, 0, "Woof", "Bark", 1, 2, 3, 4)
CreateTable(name, fields) ==
    /\ Len(heap) < MaxTables
    /\ \E r \in {create_table(stack, globals, heap, name, fields)} :
           /\ stack' = r.stack
           /\ globals' = r.globals
           /\ heap' = r.heap
           /\ lastres' = Accessed("create_table", FALSE, <<r.value>>, r.stack)
    /\ UNCHANGED <<lastcall, registered, host, shared, counters, lstate>>

\* lua.create_table(0, 0, "Woof", "Bark", 1, 2, 3, 4);
\* lua.create_table_with("Woof", "Bark", 1, 2, 3, 4)
CreateTableWith(fields) ==
    /\ Len(heap) < MaxTables
    /\ \E r \in {create_table_with(stack, globals, heap, fields)} :
           /\ stack' = r.stack
           /\ globals' = r.globals
           /\ heap' = r.heap
           /\ lastres' = Accessed("create_table_with", FALSE, <<r.value>>,
                                  r.stack)
    /\ UNCHANGED <<lastcall, registered, host, shared, counters, lstate>>

\* lua["testtable"] = table: the table just created is stored under a name
StoreTable(name) ==
    /\ lastres.done
    /\ lastres.kind = "field"
    /\ lastres.op = "create_table_with"
    /\ \E r \in {table_set(stack, globals, heap, GlobalTable, <<name>>,
                            <<lastres.reads[1]>>)} :
           /\ stack' = r.stack
           /\ globals' = r.globals
           /\ heap' = r.heap
           /\ lastres' = Accessed("set", FALSE, <<>>, r.stack)
    /\ UNCHANGED <<lastcall, registered, host, shared, counters, lstate>>

\* lua.new_usertype<fuser>("fuser", ...); lua.set_usertype(lc)
SetUsertype(name) ==
    /\ Len(heap) < MaxTables
    /\ \E r \in {set_usertype(stack, globals, heap, name)} :
           /\ stack' = r.stack
           /\ globals' = r.globals
           /\ heap' = r.heap
           /\ lastres' = Accessed("set_usertype", FALSE, <<r.value>>, r.stack)
    /\ UNCHANGED <<lastcall, registered, host, shared, counters, lstate>>

\* lua.get<sol::table>("os")
GetTable(name) ==
    /\ \E r \in {table_get(stack, globals, heap, GlobalTable, <<"table">>,
                            <<name>>)} :
           /\ stack' = r.stack
           /\ lastres' = Accessed("get table", r.error, r.values, r.stack)
    /\ UNCHANGED <<lastcall, globals, heap, registered, host, shared,
                   counters, lstate>>

\* sol::state lua, the host's own slots below
InitState ==
    /\ stack \in {[i \in 1..h |-> Nil] : h \in {0, MaxPre}}
    /\ lastcall = NoCall
    /\ globals = NoFields
    /\ heap = <<Table(NoFields)>>
    /\ registered = <<>>
    /\ host = <<>>
    /\ lastres = NoRes
    /\ IdleLifetime

NextState ==
    \/ \E args \in LibLists : OpenLibraries(args)
    \/ \E name \in TableNames, fields \in TableFields :
          CreateTable(name, fields)
    \/ \E fields \in TableFields : CreateTableWith(fields)
    \/ \E name \in TableNames : StoreTable(name)
    \/ \E name \in UsertypeNames : SetUsertype(name)
    \/ \E name \in TableNames \cup UsertypeNames : GetTable(name)

SpecState == InitState /\ [][NextState]_vars

(***************************************************************************)
(* Claims about function::call, checked under Spec.                        *)
(***************************************************************************)
\* the number of result slots the runtime's call left on the stack
Produced == lastcall.post - lastcall.h

\* the callable sits right above the pre-call stack, the argument slots above it
PushedInOrder ==
    /\ Len(lastcall.mid) = lastcall.h + 1 + lastcall.nargs
    /\ lastcall.mid[lastcall.h + 1].k = "function"
    /\ \A i \in (lastcall.h + 2)..Len(lastcall.mid) :
           lastcall.mid[i].k = "number"

\* C1 as stated: after every function::call (zero, one or several result
\* types, or void) the callable was pushed first, then the arguments, and the
\* stack height is the pre-call height plus the number of results the call
\* produced.
C1_HeightPlusProduced ==
    lastcall.done =>
        /\ PushedInOrder
        /\ Len(stack) = lastcall.h + Produced

\* C1 amended: the callable is pushed first, then the arguments; when the
\* call returns the stack height is the pre-call height plus the callee's
\* return count for a request of zero result types (the results stay on the
\* stack for the function_result), and exactly the pre-call height for a
\* typed or void request (the requested results are popped into host values).
C1_HeightAfterCall ==
    lastcall.done =>
        /\ PushedInOrder
        /\ Len(stack) = lastcall.h +
               (IF lastcall.req = <<>> THEN lastcall.mid[lastcall.h + 1].v
                ELSE 0)

C1_Witness ==
    /\ lastcall.done
    /\ lastcall.h = 2
    /\ lastcall.nargs = 3
    /\ Len(lastcall.req) = 2
    /\ Len(lastcall.ret) = 2
    /\ Len(stack) = 2

(***************************************************************************)
(* Claims about overload resolution, checked under SpecOverload.           *)
(***************************************************************************)
\* a candidate accepts a call: same argument count, every kind as declared
ClaimAccepts(c, args) ==
    /\ Len(c.params) = Len(args)
    /\ \A i \in 1..Len(args) : c.params[i] = "any" \/ c.params[i] = args[i].k

\* the position in registration order of the first accepting candidate, or 0
FirstAccepting(set, args) ==
    IF \E i \in 1..Len(set) : ClaimAccepts(set[i], args)
    THEN CHOOSE i \in 1..Len(set) :
             /\ ClaimAccepts(set[i], args)
             /\ \A j \in 1..(i - 1) : ~ClaimAccepts(set[j], args)
    ELSE 0

\* C2: every call of an overload set is dispatched to the first candidate in
\* registration order that accepts the argument count and kinds; no later
\* candidate is invoked when an earlier one accepts.
C2_FirstRegisteredWins ==
    lastres.done =>
        LET i == FirstAccepting(registered, lastres.args)
        IN  i # 0 => /\ lastres.chosen = registered[i].name
                     /\ lastres.invoked = <<registered[i].name>>

C2_Witness ==
    /\ lastres.done
    /\ \E i, j \in 1..Len(registered) :
           /\ i < j
           /\ ClaimAccepts(registered[i], lastres.args)
           /\ ClaimAccepts(registered[j], lastres.args)
           /\ lastres.invoked = <<registered[i].name>>

\* C3: a call that no candidate accepts raises the resolution error and
\* invokes no candidate.
C3_NoMatchRaises ==
    (lastres.done /\ FirstAccepting(registered, lastres.args) = 0) =>
        /\ lastres.error
        /\ lastres.invoked = <<>>

C3_Witness ==
    /\ lastres.done
    /\ lastres.error
    /\ lastres.invoked = <<>>
    /\ registered = <<func_1, func_1s, func_3>>
    /\ lastres.args = <<Num(1), Num(1), Str(1)>>

\* C4: a call with n arguments never invokes a candidate whose declared
\* parameter count differs from n.
C4_ArityRespected ==
    lastres.done =>
        \A i \in 1..Len(registered) :
            (\E k \in 1..Len(lastres.invoked) :
                 lastres.invoked[k] = registered[i].name)
                => Len(registered[i].params) = Len(lastres.args)

C4_Witness ==
    /\ lastres.done
    /\ registered = <<func_1, func_3, func_2>>
    /\ Len(lastres.args) = 2
    /\ lastres.invoked = <<"func_2">>

\* the registered set without the candidates that fail on these arguments
RECURSIVE AcceptingOnly(_, _)
AcceptingOnly(set, args) ==
    IF set = <<>> THEN <<>>
    ELSE (IF ClaimAccepts(Head(set), args) THEN <<Head(set)>> ELSE <<>>)
         \o AcceptingOnly(Tail(set), args)

\* C5: every failed candidate attempt leaves the stack height as it found
\* it, and the call ends at the same stack height (and with the same
\* outcome) as a run in which the failing candidates are absent.
C5_FailedAttemptsLeaveNoTrace ==
    lastres.done =>
        /\ \A k \in 1..Len(lastres.attempts) :
               lastres.attempts[k].after = lastres.attempts[k].before
        /\ LET alt == match(AcceptingOnly(registered, lastres.args), 1,
                            lastres.args, <<>>)
           IN  /\ alt.error = lastres.error
               /\ Len(alt.frame) = Len(lastres.frame)
               /\ alt.invoked = lastres.invoked

C5_Witness ==
    /\ lastres.done
    /\ ~lastres.error
    /\ Len(lastres.attempts) = 2
    /\ Len(lastres.args) = 2
    /\ Len(lastres.frame) = 1

(***************************************************************************)
(* Claims about opaque object records, checked under SpecLifetime and      *)
(* SpecShared.                                                             *)
(***************************************************************************)
OwnedRecords == {p \in 1..Len(heap) : heap[p].mode = "owned-value"}

\* C6: the destructor of every object stored by value runs exactly once, at
\* its reclamation or at the latest when the runtime is closed; after the
\* runtime is closed and the host originals are gone there have been as many
\* destructions as constructions.
C6_DestroyedExactlyOnce ==
    /\ \A p \in OwnedRecords :
           /\ heap[p].fin <= 1
           /\ (heap[p].fin = 1) <=> heap[p].collected
    /\ lstate = "closed" => \A p \in OwnedRecords : heap[p].fin = 1
    /\ (lstate = "closed" /\ \A a \in HostObjs : ~host[a].alive)
           => counters.destroyed = counters.created

C6_Witness ==
    /\ lstate = "closed"
    /\ \A a \in HostObjs : ~host[a].alive
    /\ Cardinality(OwnedRecords) = 1
    /\ \E p \in 1..Len(heap) : heap[p].mode = "raw-alias"
    /\ counters.created = NHost + 1
    /\ counters.destroyed = NHost + 1
    /\ lastres.done

RuntimeCopies ==
    Cardinality({p \in 1..Len(heap) :
                     heap[p].mode = "shared-owner" /\ ~heap[p].collected})

\* C7: the shared count is the host's handles plus one per record that holds
\* the handle (binding adds one, retrieving a reference adds none); once the
\* runtime is closed the count is back to what the host's handles account
\* for, its value before the binding; the object lives as long as the host
\* holds a handle.
C7_SharedCountRestored ==
    /\ shared.count = shared.hosthandles + RuntimeCopies
    /\ lstate = "closed" => shared.count = shared.hosthandles
    /\ shared.hosthandles > 0 => shared.alive

C7_Witness ==
    /\ lstate = "closed"
    /\ lastres.done
    /\ shared.hosthandles = 1
    /\ shared.count = 1
    /\ shared.alive
    /\ Len(heap) = 2
    /\ \A p \in 1..Len(heap) : heap[p].fin = 1

\* C8: a retrieval yields the host object's own address exactly when the
\* object was bound as a pointer or a reference wrapper; an object bound by
\* value is retrieved at an address of the runtime's storage, and a later
\* write to the host original shows through the retrieved reference in the
\* alias case only.
C8_AliasIffPointerOrWrapper ==
    lastres.done =>
        /\ lastres.from # 0 =>
               ((lastres.addr = HostAddr(lastres.from))
                    <=> lastres.how \in {"pointer", "reference_wrapper"})
        /\ lastres.how = "value" =>
               /\ lastres.addr.space = "userdata"
               /\ Valid(lastres.addr, heap, host) =>
                      Deref(lastres.addr, heap, host) = lastres.seen
        /\ (lastres.how \in {"pointer", "reference_wrapper"}
                /\ host[lastres.from].alive) =>
               Deref(lastres.addr, heap, host) = host[lastres.from].boop

C8_Witness ==
    /\ lastres.done
    /\ lastres.how = "reference_wrapper"
    /\ lastres.seen = 0
    /\ host[lastres.from].alive
    /\ Deref(lastres.addr, heap, host) = 1
    /\ \E p \in OwnedRecords :
           /\ ~heap[p].collected
           /\ heap[p].from = lastres.from
           /\ heap[p].boop = 0

(***************************************************************************)
(* Claims about bound member functions, checked under SpecBind.            *)
(***************************************************************************)
SuppliedAsAlias ==
    lastres.how \in {"pointer", "pointer_lvalue", "reference_wrapper"}

\* C9: a member function bound with a receiver acts on the host's own object
\* (only its address is kept, host writes after binding are observed) exactly
\* when the receiver was supplied as a pointer or a reference wrapper; in
\* every other case it acts on a copy made at bind time, which host writes do
\* not reach and which stays callable after the host's original is destroyed.
C9_ReceiverAliasIffPointerOrWrapper ==
    (lastres.done /\ lastres.kind = "bound") =>
        /\ SuppliedAsAlias <=> lastres.recv = HostAddr(lastres.from)
        /\ SuppliedAsAlias =>
               /\ lastres.ub <=> ~lastres.hostalive
               /\ ~lastres.ub => lastres.result = lastres.hostboop
        /\ ~SuppliedAsAlias =>
               /\ lastres.recv.space = "userdata"
               /\ ~lastres.ub
               /\ lastres.result = lastres.bindboop

C9_Witness ==
    /\ lastres.done
    /\ lastres.kind = "bound"
    /\ lastres.how = "lvalue"
    /\ lastres.bindboop = 1
    /\ ~lastres.hostalive
    /\ lastres.result = 1
    /\ ~lastres.ub

\* C10: a member function bound without a receiver stores the member
\* function pointer only, and a call obj:method() runs the member function
\* on the object of its first argument, obj.
C10_FirstArgumentIsReceiver ==
    (lastres.done /\ lastres.kind = "this") =>
        /\ lastres.closure.v.up = MemFxSlots("get")
        /\ lastres.recv = heap[lastres.self].addr
        /\ lastres.recv = StorageAddr(lastres.self)
        /\ ~lastres.error

C10_Witness ==
    /\ lastres.done
    /\ lastres.kind = "this"
    /\ lastres.self = 2
    /\ lastres.recv = StorageAddr(2)
    /\ Len(heap) = 2

(***************************************************************************)
(* Claims about the callable binder, checked under SpecRebind, SpecPush    *)
(* and SpecBinder.                                                         *)
(***************************************************************************)
\* C11: every closure or function object that converts to a plain function
\* pointer is bound as a plain function pointer is, whether it reaches the
\* binder through set_function or through a push, with a signature or
\* without one: the trampoline of free functions over the pointer's bytes,
\* and no call-state object is allocated.
C11_StatelessBoundAsFunctionPointer ==
    /\ (lastres.done /\ lastres.kind = "bind"
           /\ lastres.c.kind \in {"stateless", "function"}) =>
           /\ lastres.closure.v.fn = "upvalue_free_function::call"
           /\ lastres.closure.v.up =
                  <<LightUserData("function",
                                  IF lastres.c.kind = "stateless"
                                  THEN ConversionAddr(lastres.c.id)
                                  ELSE FunctionAddr(lastres.c.id))>>
           /\ lastres.allocated = 0
    /\ (lastres.done /\ lastres.kind = "push"
           /\ lastres.what \in {"stateless", "function"}) =>
           /\ lastres.top.v.fn = "upvalue_free_function::call"
           /\ lastres.top.v.up =
                  <<LightUserData("function",
                                  IF lastres.what = "stateless"
                                  THEN ConversionAddr(1)
                                  ELSE FunctionAddr(1))>>
           /\ lastres.allocated = 0

\* C13: a script call through a name invokes the callable most recently
\* bound under that name, whatever was bound there before.
C13_RebindReplaces ==
    (lastres.done /\ lastres.kind = "call") =>
        LET b == lastres.bound
            t == lastres.target
        IN  /\ t.callee = IF b.c.kind = "member_obj" THEN memfx_only ELSE b.c
            /\ t.set = b.set
            /\ b.c.kind = "member_obj" =>
                   IF b.c.how \in {"pointer", "pointer_lvalue",
                                   "reference_wrapper"}
                   THEN t.recv = HostAddr(b.c.from)
                   ELSE t.recv.space = "userdata"

C13_Witness ==
    /\ lastres.done
    /\ lastres.kind = "call"
    /\ lastres.bound.over = "stateful"
    /\ lastres.bound.c = free_function(1)
    /\ lastres.target.callee = free_function(1)

\* C19: pushing a bound callable, whatever its classification, reports one
\* slot and leaves exactly one function value above the stack as it was:
\* the slots pushed as call state are consumed into that closure.
C19_PushYieldsOneFunction ==
    (lastres.done /\ lastres.kind = "push") =>
        /\ lastres.count = 1
        /\ lastres.post = lastres.pre + 1
        /\ lastres.kept
        /\ lastres.top.k = "cclosure"

C19_Witness ==
    /\ lastres.done
    /\ lastres.kind = "push"
    /\ lastres.what = "member_obj"
    /\ lastres.pre = 1
    /\ lastres.post = 2
    /\ lastres.top.k = "cclosure"
    /\ lastres.top.v.fn = "upvalue_member_function::call"
    /\ Len(lastres.top.v.up) = 3


\* C12: a value stored under a key (string or integer, global or inside a
\* nested table) and read back as the host type it was stored with comes back
\* equal to the value stored: every read of a field operation whose requested
\* type is the type last written to that slot returns the value last written.
C12_SetThenGetRoundTrip ==
    (lastres.done /\ lastres.kind = "field") =>
        \A i \in DOMAIN lastres.reads :
            LET rd == lastres.reads[i]
            IN  rd.ty = rd.written.t => rd.value = rd.written

\* a string stored in t1.t2 and a boolean stored under the integer key of t1
\* have each been read back, and so has an integer stored in a global
C12_Witness ==
    /\ lastres.done
    /\ lastres.kind = "field"
    /\ lastres.op = "traverse_get"
    /\ lastres.reads[1].slot = Slot(<<T1, T2>>, Str(1))
    /\ lastres.reads[1].ty = "string"
    /\ lastres.reads[1].written = HostValue("string", 1)
    /\ lastres.reads[1].value = HostValue("string", 1)
    /\ registered[Slot(<<T1>>, Num(1))] = HostValue("bool", 1)
    /\ registered[Slot(<<>>, Num(1))] = HostValue("int", 7)

\* C14: set, get, traverse_get and traverse_set on the state, with one key,
\* several keys or a chain of nested keys, leave the stack exactly as high as
\* it was before the operation (and leave the slots below untouched).
C14_FieldAccessKeepsStackHeight ==
    (lastres.done /\ lastres.kind = "field") =>
        /\ lastres.post = lastres.pre
        /\ lastres.kept

\* a chain of two nested keys has been read over a stack that was not empty
C14_Witness ==
    /\ lastres.done
    /\ lastres.kind = "field"
    /\ lastres.op \in {"traverse_get", "get several"}
    /\ ~lastres.error
    /\ lastres.pre = MaxPre
    /\ lastres.post = MaxPre
    /\ Len(stack) = MaxPre
    /\ registered[Slot(<<T1, T2>>, Str(1))] # HostValue("nil", 0)

\* C15: once a table has been iterated from begin() until the iterator equals
\* end() and the iterators have been destroyed, the stack is as high as it
\* was before begin().
C15_IterationRestoresStackHeight ==
    (lastres.done /\ lastres.kind = "iter" /\ lastres.destroyed
        /\ lastres.atend) =>
        lastres.post = lastres.pre

\* a table of three pairs has been iterated to its end over a stack that was
\* not empty, and the iterators are gone
C15_Witness ==
    /\ lastres.done
    /\ lastres.kind = "iter"
    /\ lastres.destroyed
    /\ lastres.atend
    /\ Cardinality(lastres.pairs) = 3
    /\ lastres.incs = 3
    /\ lastres.pre = MaxPre
    /\ Len(stack) = MaxPre

\* C16: iterating a table of n pairs from begin() with pre-increment raises
\* no error, equals end() after exactly n increments and not before, and has
\* by then visited each pair of the table exactly once.
C16_IterationVisitsEachPairOnce ==
    (lastres.done /\ lastres.kind = "iter") =>
        /\ ~lastres.raised
        /\ lastres.atend <=> lastres.incs = Cardinality(lastres.pairs)
        /\ lastres.atend =>
              /\ Len(lastres.seen) = Cardinality(lastres.pairs)
              /\ {lastres.seen[i] : i \in DOMAIN lastres.seen} = lastres.pairs

\* C17: script and script_file never return normally when loading or running
\* the code fails.  With the library's panic handler installed, a build with
\* exceptions throws an error whose text is the runtime's message (the error
\* value when it is a string or a number) or the fixed default when there is
\* none; a build without exceptions has the panic handler return -1 and
\* throws nothing.
C17_ScriptFailureNeverReturns ==
    (lastres.done /\ lastres.kind \in ScriptKinds
        /\ lastres.outcome.status # LUA_OK) =>
        /\ lastres.ran.end # "return"
        /\ (lastres.panic = "atpanic" /\ lastres.exceptions) =>
              /\ lastres.ran.end = "throw"
              /\ lastres.ran.exception.what =
                    (IF lastres.outcome.value.k = "string"
                     THEN lastres.outcome.value
                     ELSE IF lastres.outcome.value.k = "number"
                     THEN NumberText(lastres.outcome.value.v)
                     ELSE DefaultPanicMessage)
        /\ (lastres.panic = "atpanic" /\ ~lastres.exceptions) =>
              /\ lastres.ran.end = "abort"
              /\ lastres.ran.ret = -1

\* a script failed with an error value that is no message, and the error
\* thrown carries the default text
C17_Witness ==
    /\ lastres.done
    /\ lastres.kind = "script"
    /\ lastres.outcome.status = "LUA_ERRRUN"
    /\ lastres.outcome.value = Nil
    /\ lastres.exceptions
    /\ lastres.ran.end = "throw"
    /\ lastres.ran.exception = error(DefaultPanicMessage)

\* C18: thread_state(), status() and create() leave the calling state's
\* stack as high as it was (and its slots as they were), and none of them
\* changes the status or the stack of a thread that existed before: status()
\* only reports.
C18_ThreadQueriesKeepStack ==
    (lastres.done /\ lastres.kind = "thread") =>
        /\ lastres.post = lastres.pre
        /\ lastres.kept
        /\ lastres.after = lastres.before

\* status() has reported a yielded thread with an empty stack as dead, over a
\* caller's stack that was not empty, and the thread is still yielded
C18_Witness ==
    /\ lastres.done
    /\ lastres.kind = "thread"
    /\ lastres.op = "status"
    /\ lastres.result.status = "dead"
    /\ lastres.pre = MaxPre
    /\ Len(stack) = MaxPre
    /\ lastres.after = <<Thread("yielded", <<>>)>>

\* C20: a call that requests zero result types returns a handle whose first
\* index is the pre-call height plus 1, the slot the callable occupied, and
\* whose count is the number of values the callee returned, whatever the
\* pre-call height, the number of argument slots and the return count; the
\* values it names are the top of the stack.
C20_MultiResultHandle ==
    (lastcall.done /\ lastcall.req = <<>>) =>
        /\ lastcall.first = lastcall.h + 1
        /\ lastcall.count = lastcall.mid[lastcall.h + 1].v
        /\ Len(stack) = lastcall.first + lastcall.count - 1

\* a callee that returns nothing was called on an empty stack with several
\* argument slots, and one that returns MaxRet values on a stack MaxPre high
C20_Witness ==
    /\ lastcall.done
    /\ lastcall.req = <<>>
    /\ \/ /\ lastcall.h = 0
          /\ lastcall.nargs > 1
          /\ lastcall.count = 0
          /\ lastcall.first = 1
       \/ /\ lastcall.h = MaxPre
          /\ lastcall.nargs > 1
          /\ lastcall.count = MaxRet
          /\ lastcall.first = MaxPre + 1

\* the slots a host argument is written to: both members of a pair, one slot
\* for an integer
ClaimSlots(a) == IF a = "pair" THEN 2 ELSE 1

RECURSIVE ClaimSlotCount(_)
ClaimSlotCount(args) ==
    IF args = <<>> THEN 0
    ELSE ClaimSlots(Head(args)) + ClaimSlotCount(Tail(args))

\* the number of results the runtime is asked to leave: all of the callee's
\* for a request of zero result types, none for void, one per requested type
ClaimResults ==
    IF lastcall.req = <<>> THEN lastcall.mid[lastcall.h + 1].v
    ELSE IF lastcall.req = <<"void">> THEN 0
    ELSE Len(lastcall.req)

\* C21: the argument count function::call hands to the runtime is the number
\* of stack slots multi_push wrote for the arguments, left to right, not the
\* number of host arguments; the call therefore consumes the callable and
\* every argument slot, leaving the stack below the callable and the results.
C21_ArgumentCountIsSlotCount ==
    lastcall.done =>
        /\ lastcall.nargs = ClaimSlotCount(lastcall.args)
        /\ Len(lastcall.mid) = lastcall.h + 1 + lastcall.nargs
        /\ lastcall.mid[lastcall.h + 1].k = "function"
        /\ SubSeq(lastcall.mid, lastcall.h + 2, Len(lastcall.mid))
              = multi_push_slots(lastcall.args)
        /\ lastcall.post = lastcall.h + ClaimResults

\* a pair was among the arguments, so more slots than host arguments were
\* handed over
C21_Witness ==
    /\ lastcall.done
    /\ lastcall.args = <<"int", "pair">>
    /\ lastcall.nargs = 3
    /\ lastcall.h = 1
    /\ lastcall.req = <<"int">>
    /\ lastcall.post = 2

(***************************************************************************)
(* Claims about opaque object records, checked under SpecRecord.           *)
(***************************************************************************)
\* the state of the record at heap index p: unbound while it does not exist,
\* destroyed once the manager has destroyed what it holds, else its mode
RecordState(hp, p) ==
    IF p > Len(hp) THEN "unbound"
    ELSE IF hp[p].state = "destroyed" THEN "destroyed"
    ELSE hp[p].mode

RecordMoves ==
    {<<"unbound", "owned-value">>, <<"unbound", "raw-alias">>,
     <<"unbound", "shared-owner">>, <<"owned-value", "destroyed">>,
     <<"shared-owner", "destroyed">>}

\* C22: a record moves only unbound -> owned-value, unbound -> raw-alias,
\* unbound -> shared-owner, owned-value -> destroyed and shared-owner ->
\* destroyed: a raw-alias record is never destroyed by the manager, a bound
\* record keeps its ownership mode, and a destroyed record stays destroyed.
C22_RecordMovesOnlyAlongLifecycle ==
    [][\A p \in 1..Len(heap') :
          /\ \/ RecordState(heap', p) = RecordState(heap, p)
             \/ <<RecordState(heap, p), RecordState(heap', p)>> \in RecordMoves
          /\ p <= Len(heap) => heap'[p].mode = heap[p].mode]_vars

\* an aliasing record has been reclaimed without being destroyed, next to an
\* owning record that was destroyed
C22_Witness ==
    \E p, q \in 1..Len(heap) :
        /\ heap[p].mode = "raw-alias"
        /\ heap[p].collected
        /\ heap[p].state # "destroyed"
        /\ heap[q].mode \in {"owned-value", "shared-owner"}
        /\ heap[q].state = "destroyed"

(***************************************************************************)
(* Claims about call-state objects, checked under SpecCallState.           *)
(***************************************************************************)
\* the function values that exist: those a name holds and those dropped but
\* not yet reclaimed
LiveValues ==
    {<<"name", n>> : n \in DOMAIN globals} \cup
    {<<"dropped", i>> : i \in 1..Len(registered)}

ValueAt(w) == IF w[1] = "name" THEN globals[w[2]] ELSE registered[w[2]]

Carriers(p) == {w \in LiveValues : CallStateOf(ValueAt(w)) = p}

\* C23: a heap-allocated call-state object belongs to exactly one function
\* value from the bind on: no two function values carry the same object, an
\* object is destroyed exactly once, by the reclamation of the value that
\* carries it, and no function value a name still holds carries a destroyed
\* object.
C23_CallStateHasOneOwner ==
    /\ \A p \in 1..Len(heap) :
          /\ Cardinality(Carriers(p)) <= 1
          /\ heap[p] = Freed <=> Carriers(p) = {}
    /\ counters.created = Len(heap)
    /\ counters.destroyed = Cardinality({p \in 1..Len(heap) : heap[p] = Freed})
    /\ (lastres.done /\ lastres.kind = "gc") => ~lastres.twice

\* one call-state object has been destroyed by reclamation while another is
\* still carried by a callable function value
C23_Witness ==
    /\ Len(heap) = 2
    /\ \E p, q \in 1..Len(heap) :
          /\ heap[p] = Freed
          /\ heap[q] # Freed
          /\ \E n \in DOMAIN globals : CallStateOf(globals[n]) = q
    /\ counters.destroyed = 1
    /\ lastres.done
    /\ lastres.kind = "gc"

\* C24: status() reports dead exactly when the thread's runtime status is not
\* normal and its own stack is empty, and the runtime status as it is
\* otherwise; a thread whose runtime status is normal is never reported dead,
\* and a suspended thread is reported as suspended, not as dead.
C24_StatusReportsSuspendedAsSuspended ==
    (lastres.done /\ lastres.kind = "thread" /\ lastres.op = "status") =>
        LET t == lastres.before[1]
            reported == lastres.result.status
        IN  /\ reported = "dead" <=> (t.status # "normal" /\ t.stack = <<>>)
            /\ reported # "dead" => reported = t.status
            /\ t.status = "normal" => reported # "dead"
            /\ t.status = "yielded" => reported = "yielded"


\* C25: a function::call that requests k >= 1 result types, or void, asks the
\* runtime for exactly k (for void: 0) results whatever the callee returns,
\* pops exactly those k results into the host values, and returns with the
\* stack as it was before the call: the callable, the argument slots and the
\* results are all gone.
C25_TypedCallConsumesEverything ==
    (lastcall.done /\ lastcall.req # <<>>) =>
        LET k == IF lastcall.req = <<"void">> THEN 0 ELSE Len(lastcall.req)
            callee == lastcall.mid[lastcall.h + 1]
        IN  /\ lastcall.post = lastcall.h + k
            /\ lastcall.ret = Adjust(FnResults(callee), k)
            /\ stack = SubSeq(lastcall.mid, 1, lastcall.h)

C25_Witness ==
    /\ lastcall.done
    /\ lastcall.req = <<"void">>
    /\ lastcall.h = 1
    /\ lastcall.mid[2] = Fn(2)
    /\ lastcall.nargs = 2
    /\ lastcall.post = 1
    /\ Len(stack) = 1


\* C26: for an empty table the iterator begin() returns equals end(): a range
\* iteration over it visits no pair, makes no further lua_next lookup and
\* raises nothing.
C26_EmptyTableBeginIsEnd ==
    (lastres.done /\ lastres.kind = "iter" /\ lastres.pairs = {}) =>
        /\ lastres.atend
        /\ lastres.seen = <<>>
        /\ lastres.incs = 0
        /\ ~lastres.raised


\* C28: destroying a table_iterator at any point of its iteration (before
\* the first increment, mid-way or after exhaustion) puts the stack back to
\* the height it had before the iterator was constructed: neither the table
\* slot nor the current key stays on the stack.
C28_DestroyAnywhereRestoresStackHeight ==
    (lastres.done /\ lastres.kind = "iter" /\ lastres.destroyed) =>
        /\ lastres.post = lastres.pre
        /\ Len(stack) = lastres.pre


\* C27: the table slot a table_iterator constructor pushes is removed exactly
\* once, however many copies of the iterator are made and destroyed (the
\* temporary of post-increment included): while the original lives the
\* copies' destructors have removed nothing and the slot the original
\* iterates over still holds the table, and once the original is gone one
\* removal has happened.
C27_TableSlotRemovedOnce ==
    (lastres.done /\ lastres.kind = "copy") =>
        /\ lastres.original => (lastres.removed = 0 /\ lastres.intact)
        /\ ~lastres.original => lastres.removed = 1


\* C29: a pair or tuple field_getter whose keys name a chain of tables
\* returns and has raised the stack by exactly one slot, whatever the number
\* of keys and whatever valid index, positive or negative, names the table:
\* the slots below are as they were and of the n lookup results only one
\* slot, the copy of the last one, is left above them.
C29_KeysGetterRaisesStackByOne ==
    (lastres.done /\ lastres.kind = "keys" /\ ~lastres.chained.error) =>
        /\ lastres.post = lastres.pre + 1
        /\ lastres.kept

\* C30: for keys (k1, ..., kn) and a table at any valid index the pair and
\* the tuple field_getter leave on top the value of the chained lookup
\* table[k1][k2]...[kn], each lookup after the first reading from the result
\* of the one before; for n = 2 the two getters therefore give the same
\* result.
C30_KeysGetterChainsLookups ==
    (lastres.done /\ lastres.kind = "keys" /\ ~lastres.chained.error) =>
        /\ ~lastres.error
        /\ lastres.top = lastres.chained.value

====
